---------------------------- MODULE Spec2Model ----------------------------
(***************************************************************************)
(* A model of the request queue of opencode-agent-tmux: class SpawnQueue   *)
(* (spawn-queue.ts, kept in src/unnamed/part_000 from line 120 on), and of *)
(* its session lifecycle manager: class TmuxSessionManager                 *)
(* (src/src/tmux-session-manager.ts).  The manager of the source does not  *)
(* use the queue, so each has its own specification: Spec runs the queue   *)
(* with the manager untouched, ManagerSpec the manager with the queue      *)
(* untouched.  The zombie reaper (class ZombieReaper of                    *)
(* src/src/utils/index.ts) runs in ReaperSpec, its continuous mode, and in *)
(* OneShotSpec, its one-shot global mode; the pure layout functions        *)
(* (src/src/layout.ts, src/src/utils/layout.ts) are applied to drawn       *)
(* inputs in LayoutSpec.                                                   *)
(*                                                                         *)
(* JavaScript runs the queue on one cooperative scheduler.  A step of the  *)
(* model is one run-to-suspension of that scheduler: a public call         *)
(* (enqueue, shutdown) together with everything it executes synchronously, *)
(* or the continuation of one `await` of processQueue / processItem up to  *)
(* its next `await`.  Every `await` of the source is a suspension point at *)
(* which other calls may interleave.                                       *)
(*                                                                         *)
(* Not modelled: the title of an item and the log calls (no effect on      *)
(* control flow).  spawnFn is taken to be an async function: its result,   *)
(* a returned value or a thrown exception, arrives through its promise.    *)
(***************************************************************************)
EXTENDS Integers, Sequences, FiniteSets, TLC

(***************************************************************************)
(* Bounds of the model.                                                    *)
(***************************************************************************)
NumSessions == 2      \* distinct sessionIds offered to enqueue
MaxPromises == 3      \* accepted (non-coalesced) enqueues in one run
MaxLoops == 2         \* processQueue activations alive at once (the code keeps 1)
NumPanes == 1         \* distinct paneIds spawnFn may return
MaxCreates == 1       \* onSessionCreated activations alive at once
MaxRepeats == 1       \* more of them for an event whose pane is being spawned
MaxPolls == 2         \* pollSessions activations alive at once
MaxLayouts == 2       \* recalculateLayout activations alive at once
NumProcs == 2         \* attach processes on the machine
maxPorts == 1         \* options.maxPorts: ports reapAll scans after the first
MaxAgents == 7        \* agents (satellite panes) handed to the layout functions
MaxPerColumn == 3     \* the largest max_agents_per_column

(***************************************************************************)
(* Program constants and constructor options.                              *)
(***************************************************************************)
BASE_BACKOFF_MS == 250
spawnDelayMs == 300
maxRetries == 2
\* options.staleThresholdMs; the default is 30000, the model runs the queue
\* with a threshold of two clock ticks (the tests use 50).
staleThresholdMs == 500

\* ReaperOptions (src/src/utils/index.ts, lines 27-35): the reaper scans
\* once a second and needs three sightings over two seconds.
reaperIntervalMs == 1000
minZombieChecks == 3
gracePeriodMs == 2000
selfDestructTimeoutMs == 2000
\* waitForProcessExit(proc.pid, 2000)
EXIT_WAIT_MS == 2000
\* tmuxConfig.main_pane_size ?? 60 (tmux-session-manager.ts, line 176)
main_pane_size == 60
\* The window sizes tmux reports: no size, a terminal of 80 x 24 and one
\* whose sizes do not divide evenly.
WindowWidths == {0, 80, 81}
WindowHeights == {0, 24, 25}
OPENCODE_PORT_START == 4096
\* for (let i = 0; i < 3; i++): the status queries reapServers makes of one
\* server
PROBE_ATTEMPTS == 3

TickMs == BASE_BACKOFF_MS
\* Date.now(), read from an origin that moves with the clock (see Tick).
now == 0
SessionIds == 1..NumSessions
PromiseIds == 1..MaxPromises
PaneIds == 1..NumPanes
Pids == 1..NumProcs

(***************************************************************************)
(* SpawnResult values.  paneId 0 stands for an absent paneId.              *)
(***************************************************************************)
Fail == [success |-> FALSE, paneId |-> 0]
Ok(pane) == [success |-> TRUE, paneId |-> pane]
Results == {Fail} \cup {Ok(pane) : pane \in PaneIds}
\* What a rejected spawnFn promise carries: an error, not a SpawnResult.
Exception == [success |-> FALSE, paneId |-> 0, error |-> TRUE]
\* The ways one spawnFn invocation can settle.
SpawnOutcomes ==
    {[kind |-> "return", result |-> r] : r \in Results}
        \cup {[kind |-> "throw", result |-> Exception]}

VARIABLES
    queue,            \* SpawnQueue.queue: Seq of QueueItem
    isProcessing,     \* SpawnQueue.isProcessing
    hasItemInFlight,  \* SpawnQueue.hasItemInFlight
    isShutdown,       \* SpawnQueue.isShutdown
    pendingPromises,  \* SpawnQueue.pendingPromises: a Map sessionId -> promise
    promises,         \* the promises enqueue has created, with what happened to each
    loops,            \* the suspended activations of processQueue
    lastCall,         \* the call of the latest step and what it returned
    updates,          \* the onQueueUpdate calls of the latest step, in order
    lastCompleted     \* <<the time the latest executed item completed>>, if any

vars == <<queue, isProcessing, hasItemInFlight, isShutdown, pendingPromises,
          promises, loops, lastCall, updates, lastCompleted>>

VARIABLES
    sessions,         \* TmuxSessionManager.sessions: a Map, in insertion order
    pollInterval,     \* TmuxSessionManager.pollInterval is set
    pollDue,          \* when the interval timer fires next
    enabled,          \* TmuxSessionManager.enabled
    shuttingDown,     \* TmuxSessionManager.shuttingDown
    mainPaneId,       \* TmuxSessionManager.mainPaneId (0: null)
    readyPromise,     \* TmuxSessionManager.readyPromise: "none", "pending", "settled"
    creates,          \* the suspended activations of onSessionCreated
    polls,            \* the suspended activations of pollSessions
    layouts,          \* the suspended activations of recalculateLayout
    cleanups,         \* the suspended activations of cleanup
    exited,           \* the process has ended
    tmuxSessionKilled, \* killTmuxSessionSync has been called
    timers            \* the setInterval timers set and not cleared

mvars == <<sessions, pollInterval, pollDue, enabled, shuttingDown, mainPaneId,
           readyPromise, creates, polls, layouts, cleanups, exited,
           tmuxSessionKilled, timers>>

VARIABLES
    candidates,       \* ZombieReaper.candidates: a Map pid -> ZombieCandidate
    isScanning,       \* ZombieReaper.isScanning
    lastActivityTime, \* ZombieReaper.lastActivityTime
    reaperPollInterval, \* ZombieReaper.pollInterval is set
    scanDue,          \* when the reaper's interval timer fires next
    scan,             \* the suspended activation of scanOnce
    kills,            \* the safeKill calls of the latest step, in order
    logged,           \* what the latest step has logged about a skipped scan
    signalled,        \* the signals safeKill has sent to each pid
    reaperExited,     \* process.exit(0) has been called
    finalScan,        \* shutdown() has been called
    idleSince,        \* <<when the first of the latest successive scans that
                      \* found no process of this server ran>>, if any
    processes,        \* the attach processes alive, with the server of each
    autoSelfDestruct, \* options.autoSelfDestruct
    targetUrl         \* the url in the command line of each attach process

rvars == <<candidates, isScanning, lastActivityTime, reaperPollInterval,
           scanDue, scan, kills, logged, signalled, reaperExited, finalScan,
           idleSince, processes, autoSelfDestruct, targetUrl>>

VARIABLES
    oneShot,          \* the suspended activation of reapAll
    servers,          \* what listens on each port of the scanned range
    serverSignals,    \* the signals reapServers has sent to each listener
    forceKilled       \* the attach processes forceKill has signalled

ovars == <<oneShot, servers, serverSignals, forceKilled>>

VARIABLES
    agentCount,       \* the number of agents (panes) of a layout call
    maxAgentsPerColumn, \* its maxAgentsPerColumn
    distribution,     \* what distributeAgentsRoundRobin has returned
    grouped,          \* what groupAgentsByColumn has returned
    generated,        \* the columns generateLayoutString has rendered
    windowWidth,      \* #{window_width} as recalculateLayout reads it
    windowHeight,     \* #{window_height}
    rendered          \* the cells and the string generateLayoutString returned

lvars == <<agentCount, maxAgentsPerColumn, distribution, grouped, generated,
           windowWidth, windowHeight, rendered>>

NoItem == [sessionId |-> 0, enqueuedAt |-> 0, resolve |-> 0]
UnusedPromise ==
    [state |-> "unused", value |-> Fail, sessionId |-> 0,
     attempts |-> <<>>, delays |-> <<>>, resolvedBy |-> "none"]
NewPromise(s) == [UnusedPromise EXCEPT !.state = "pending", !.sessionId = s]

\* The object's fields and the promise heap, as one value the synchronous
\* code of a step transforms.
World ==
    [queue |-> queue, isProcessing |-> isProcessing,
     hasItemInFlight |-> hasItemInFlight, isShutdown |-> isShutdown,
     pendingPromises |-> pendingPromises, promises |-> promises,
     updates |-> <<>>, lastCompleted |-> lastCompleted]

Commit(w) ==
    /\ queue' = w.queue
    /\ isProcessing' = w.isProcessing
    /\ hasItemInFlight' = w.hasItemInFlight
    /\ isShutdown' = w.isShutdown
    /\ pendingPromises' = w.pendingPromises
    /\ promises' = w.promises
    /\ updates' = w.updates
    /\ lastCompleted' = w.lastCompleted

(***************************************************************************)
(* Map and promise primitives.                                             *)
(***************************************************************************)
MapHas(m, k) == k \in DOMAIN m
MapSet(m, k, v) == [x \in DOMAIN m \cup {k} |-> IF x = k THEN v ELSE m[x]]
MapDelete(m, k) == [x \in DOMAIN m \ {k} |-> m[x]]

\* The resolve function of a promise: only the first call settles it.
ResolvePromise(ps, p, value, by) ==
    IF ps[p].state = "pending"
    THEN [ps EXCEPT ![p].state = "fulfilled", ![p].value = value,
                    ![p].resolvedBy = by]
    ELSE ps

\* The next promise enqueue creates (0: the model's supply is used up).
NextPromise(ps) ==
    IF \E p \in PromiseIds : ps[p].state = "unused"
    THEN CHOOSE p \in PromiseIds :
            /\ ps[p].state = "unused"
            /\ \A r \in PromiseIds : ps[r].state = "unused" => p <= r
    ELSE 0

getPendingCount(w) == Len(w.queue) + (IF w.hasItemInFlight THEN 1 ELSE 0)

\* Mutant: the callback is given getPendingCount().
NotifiedCount_Pending(w) == getPendingCount(w)

\* Line 277: the argument of the onQueueUpdate call.
NotifiedCount(w) == Len(w.queue)

\* notifyQueueUpdate (lines 276-278): one call of onQueueUpdate, recorded with
\* the state of the queue it was made in.
notifyQueueUpdate(w) ==
    [w EXCEPT !.updates =
        Append(@, [count |-> NotifiedCount(w),
                   queueLength |-> Len(w.queue),
                   hasItemInFlight |-> w.hasItemInFlight,
                   pendingCount |-> getPendingCount(w)])]


(***************************************************************************)
(* processItem (lines 332-383) and processQueue (lines 280-330).  Each     *)
(* operator runs the code from one point to its next `await` and returns   *)
(* [w |-> the world then, act |-> the suspended activation].  An           *)
(* activation's pc names the await it is suspended at:                     *)
(*   "awaitSpawn"    line 351, await this.spawnFn(request)                 *)
(*   "awaitBackoff"  line 373, await this.delay(backoffMs)                 *)
(*   "awaitItem"     line 310, await this.processItem(item)                *)
(*   "awaitDelay"    line 316, await this.delay(this.spawnDelayMs)         *)
(*   "done"          processQueue has returned                             *)
(***************************************************************************)
Activation(pc, item, retryCount, lastResult, due) ==
    [pc |-> pc, item |-> item, retryCount |-> retryCount,
     lastResult |-> lastResult, due |-> due]
DoneActivation == Activation("done", NoItem, 0, Fail, 0)

\* Mutant: the last retry is lost (< for <=).
RetryAllowed_Strict(retryCount, shutdown) == retryCount < maxRetries /\ ~shutdown

\* The condition of the while loop (line 336) and of the retry wait (line 366).
RetryAllowed(retryCount, shutdown) == retryCount <= maxRetries /\ ~shutdown

\* Mutant: the exponent is the retry count itself.
BackoffMs_OffByOne(retryCount) == BASE_BACKOFF_MS * 2 ^ retryCount

\* Line 367: BASE_BACKOFF_MS * Math.pow(2, retryCount - 1).
BackoffMs(retryCount) == BASE_BACKOFF_MS * 2 ^ (retryCount - 1)

\* Mutant: the catch keeps what was thrown as the result.
CatchResult_KeepsError(outcome) == outcome.result

\* Lines 350-354: try { lastResult = await spawnFn(request) } catch { ... }.
CatchResult(outcome) ==
    IF outcome.kind = "throw" THEN Fail ELSE outcome.result

\* Lines 337-351: build the request and call spawnFn: one more attempt of the
\* item, its outcome not yet known.  An attempt's result is what processItem
\* makes of it (lastResult, line 351 or 353).
InvokeSpawn(w, item, retryCount) ==
    [w EXCEPT !.promises[item.resolve].attempts =
        Append(@, [retryCount |-> retryCount, outcome |-> "running",
                   result |-> Fail])]

\* processItem from the loop test of line 336.
ProcessItemLoop(w, item, retryCount, lastResult) ==
    IF RetryAllowed(retryCount, w.isShutdown)
    THEN [w |-> InvokeSpawn(w, item, retryCount),
          act |-> Activation("awaitSpawn", item, retryCount, lastResult, 0)]
    ELSE [w |-> w,
          act |-> Activation("awaitItem", item, retryCount, lastResult, 0)]

\* processItem from line 356, once the spawnFn promise has settled.
AfterSpawn(w, a, outcome) ==
    LET lastResult == CatchResult(outcome)
        p == a.item.resolve
        n == Len(w.promises[p].attempts)
        w1 == [w EXCEPT !.promises[p].attempts[n].outcome = "settled",
                        !.promises[p].attempts[n].result = lastResult]
        retryCount == a.retryCount + 1
    IN  IF lastResult.success
        THEN [w |-> w1,
              act |-> Activation("awaitItem", a.item, a.retryCount, lastResult, 0)]
        ELSE IF RetryAllowed(retryCount, w.isShutdown)
        THEN [w |-> [w1 EXCEPT !.promises[p].delays =
                            Append(@, BackoffMs(retryCount))],
              act |-> Activation("awaitBackoff", a.item, retryCount, lastResult,
                                 now + BackoffMs(retryCount))]
        ELSE [w |-> w1,
              act |-> Activation("awaitItem", a.item, retryCount, lastResult, 0)]

\* Mutant: no item is ever found stale.
IsStale_Never(waitTimeMs) == FALSE

\* Line 293: the item has waited too long.
IsStale(waitTimeMs) == waitTimeMs > staleThresholdMs

\* Mutant: pop() for shift().
Shift_Pop(q) == [item |-> q[Len(q)], rest |-> SubSeq(q, 1, Len(q) - 1)]

\* Line 288: queue.shift(): the item taken and the queue left.
Shift(q) == [item |-> Head(q), rest |-> Tail(q)]

\* Mutant: the entry of pendingPromises is not deleted.
SettleItem_KeepsEntry(w, item, result, by) ==
    [w EXCEPT !.promises = ResolvePromise(@, item.resolve, result, by),
              !.hasItemInFlight = FALSE]

\* Lines 311-313 and 299-301: resolve the item and free its sessionId.
SettleItem(w, item, result, by) ==
    [w EXCEPT !.promises = ResolvePromise(@, item.resolve, result, by),
              !.pendingPromises = MapDelete(@, item.sessionId),
              !.hasItemInFlight = FALSE]

\* An enqueue(t) made from inside an onQueueUpdate / onQueueDrained callback
\* that processQueue calls on its way out (t = 0: the callback enqueues
\* nothing).  isProcessing is still TRUE there, so the processQueue() call of
\* that enqueue returns at once (line 281) and only lines 197-232 act.
CallbackEnqueue(w, t) ==
    IF t = 0 \/ w.isShutdown \/ MapHas(w.pendingPromises, t)
            \/ NextPromise(w.promises) = 0
    THEN w
    ELSE LET p == NextPromise(w.promises)
         IN notifyQueueUpdate(
                [w EXCEPT !.pendingPromises = MapSet(@, t, p),
                          !.promises[p] = NewPromise(t),
                          !.queue = Append(@, [sessionId |-> t,
                                               enqueuedAt |-> now,
                                               resolve |-> p])])

\* Lines 320-322: the notifications and the release of the loop.  cb: what
\* the onQueueUpdate callback enqueues (the onQueueDrained callback, called
\* next and only on an empty queue, is taken to enqueue nothing).
ExitLoop(w, cb) ==
    [w |-> [CallbackEnqueue(notifyQueueUpdate(w), cb)
                EXCEPT !.isProcessing = FALSE],
     act |-> DoneActivation]

\* processQueue from the loop test of line 287.
RECURSIVE ProcessQueueLoop(_, _)
ProcessQueueLoop(w, cb) ==
    IF Len(w.queue) > 0 /\ ~w.isShutdown
    THEN LET item == Shift(w.queue).item
             w1 == notifyQueueUpdate(
                       [w EXCEPT !.queue = Shift(w.queue).rest,
                                 !.hasItemInFlight = TRUE])
             waitTimeMs == now - item.enqueuedAt
         IN  IF IsStale(waitTimeMs)
             THEN ProcessQueueLoop(SettleItem(w1, item, Fail, "stale"), cb)
             ELSE ProcessItemLoop(w1, item, 0, Fail)
    ELSE ExitLoop(w, cb)

\* Mutant: the guard does not look at isProcessing.
MayStartLoop_NoFlag(w) == ~w.isShutdown

\* Line 281: the guard of processQueue.
MayStartLoop(w) == ~(w.isProcessing \/ w.isShutdown)

\* processQueue from its entry.
ProcessQueue(w, cb) ==
    IF MayStartLoop(w)
    THEN ProcessQueueLoop([w EXCEPT !.isProcessing = TRUE], cb)
    ELSE [w |-> w, act |-> DoneActivation]

\* Mutant: the loop never waits between two items.
NeedsDelay_Never(w) == FALSE

\* Line 315: the loop waits only if an item is there to go on with.
NeedsDelay(w) == Len(w.queue) > 0 /\ ~w.isShutdown

\* processQueue from line 311, once processItem has returned its result.
AfterItem(w, a, cb) ==
    LET w1 == [SettleItem(w, a.item, a.lastResult, "result")
                  EXCEPT !.lastCompleted = <<now>>]
    IN  IF NeedsDelay(w1)
        THEN [w |-> w1,
              act |-> Activation("awaitDelay", NoItem, 0, Fail, now + spawnDelayMs)]
        ELSE ProcessQueueLoop(w1, cb)

\* The activations after activation i has run to `act`.
ReplaceLoop(ls, i, act) ==
    IF act.pc = "done"
    THEN [j \in 1..(Len(ls) - 1) |-> IF j < i THEN ls[j] ELSE ls[j + 1]]
    ELSE [ls EXCEPT ![i] = act]
AddLoop(ls, act) == IF act.pc = "done" THEN ls ELSE Append(ls, act)

(***************************************************************************)
(* The public calls.                                                       *)
(***************************************************************************)
\* The call that the latest step made or saw return, if any, and what it
\* returned: an enqueue or shutdown, with the branch it took (how, as its
\* log line names it), or the spawnFn call that settled, with the way it did.
Call(op, s, p, how) ==
    [op |-> op, sessionId |-> s, promise |-> p, value |-> Fail, how |-> how]
NoCall == Call("none", 0, 0, "none")

\* Mutant: enqueue does not look at isShutdown.
EnqueueRejected_Never(w) == FALSE

\* Line 197: enqueue refuses.
EnqueueRejected(w) == w.isShutdown

\* Mutant: the lookup never finds the entry.
HasExisting_Never(w, s) == FALSE

\* Line 202-203: an entry of pendingPromises exists for the sessionId.
HasExisting(w, s) == MapHas(w.pendingPromises, s)

\* enqueue (lines 195-236).  A refused call returns a fresh promise that is
\* already resolved with failure: promise 0 of the call record, whose value
\* field is the value of that promise.
Enqueue(s, cb) ==
    /\ UNCHANGED <<mvars, rvars, ovars, lvars>>
    /\ LET w == World IN
       IF EnqueueRejected(w)
       THEN /\ lastCall' = Call("enqueue", s, 0, "rejected")
            /\ updates' = <<>>
            /\ UNCHANGED <<queue, isProcessing, hasItemInFlight, isShutdown,
                           pendingPromises, promises, loops, lastCompleted>>
       ELSE IF HasExisting(w, s)
       THEN /\ lastCall' = Call("enqueue", s, w.pendingPromises[s], "coalesced")
            /\ updates' = <<>>
            /\ UNCHANGED <<queue, isProcessing, hasItemInFlight, isShutdown,
                           pendingPromises, promises, loops, lastCompleted>>
       ELSE /\ NextPromise(w.promises) # 0
            /\ Len(loops) < MaxLoops
            /\ LET p == NextPromise(w.promises)
                   w1 == [w EXCEPT !.pendingPromises = MapSet(@, s, p),
                                   !.promises[p] = NewPromise(s),
                                   !.queue = Append(@, [sessionId |-> s,
                                                        enqueuedAt |-> now,
                                                        resolve |-> p])]
                   r == ProcessQueue(notifyQueueUpdate(w1), cb)
               IN  /\ Commit(r.w)
                   /\ loops' = AddLoop(loops, r.act)
                   /\ lastCall' = Call("enqueue", s, p, "enqueued")

\* Mutant: the queue is emptied and its items are left unresolved.
DrainQueue_Drops(w) == [w EXCEPT !.queue = <<>>]

\* Lines 256-263: resolve every queued item as failed.
RECURSIVE DrainQueue(_)
DrainQueue(w) ==
    IF Len(w.queue) > 0
    THEN LET item == Head(w.queue)
         IN  DrainQueue([w EXCEPT
                !.queue = Tail(@),
                !.promises = ResolvePromise(@, item.resolve, Fail, "shutdown"),
                !.pendingPromises = MapDelete(@, item.sessionId)])
    ELSE w

\* shutdown (lines 245-267); dispose (line 272) is the same call.
Shutdown ==
    /\ lastCall' = Call("shutdown", 0, 0, IF isShutdown THEN "ignored" ELSE "shutdown")
    /\ IF isShutdown
       THEN /\ updates' = <<>>
            /\ UNCHANGED <<queue, isProcessing, hasItemInFlight, isShutdown,
                           pendingPromises, promises, lastCompleted>>
       ELSE Commit(notifyQueueUpdate(DrainQueue([World EXCEPT !.isShutdown = TRUE])))
    /\ UNCHANGED loops
    /\ UNCHANGED <<mvars, rvars, ovars, lvars>>

(***************************************************************************)
(* The continuations of the awaits.                                        *)
(***************************************************************************)
\* The spawnFn promise of activation i settles; processItem goes on.
SpawnSettles(i, outcome) ==
    /\ loops[i].pc = "awaitSpawn"
    /\ LET r == AfterSpawn(World, loops[i], outcome)
       IN  /\ Commit(r.w)
           /\ loops' = ReplaceLoop(loops, i, r.act)
    /\ lastCall' = Call("spawnFn", loops[i].item.sessionId,
                        loops[i].item.resolve, outcome.kind)
    /\ UNCHANGED <<mvars, rvars, ovars, lvars>>

\* The timer of a retry wait fires; processItem tests its loop again.
BackoffFires(i) ==
    /\ loops[i].pc = "awaitBackoff"
    /\ now >= loops[i].due
    /\ LET a == loops[i]
           r == ProcessItemLoop(World, a.item, a.retryCount, a.lastResult)
       IN  /\ Commit(r.w)
           /\ loops' = ReplaceLoop(loops, i, r.act)
    /\ lastCall' = NoCall
    /\ UNCHANGED <<mvars, rvars, ovars, lvars>>

\* processItem has returned; processQueue goes on from line 311.
ItemReturns(i, cb) ==
    /\ loops[i].pc = "awaitItem"
    /\ LET r == AfterItem(World, loops[i], cb)
       IN  /\ Commit(r.w)
           /\ loops' = ReplaceLoop(loops, i, r.act)
    /\ lastCall' = NoCall
    /\ UNCHANGED <<mvars, rvars, ovars, lvars>>

\* The timer of the delay between two items fires; the loop tests again.
DelayFires(i, cb) ==
    /\ loops[i].pc = "awaitDelay"
    /\ now >= loops[i].due
    /\ LET r == ProcessQueueLoop(World, cb)
       IN  /\ Commit(r.w)
           /\ loops' = ReplaceLoop(loops, i, r.act)
    /\ lastCall' = NoCall
    /\ UNCHANGED <<mvars, rvars, ovars, lvars>>

\* Time passes.  The clock is read from an origin that moves with it: `now`
\* stays 0 and a tick moves every stored time back by TickMs.  The code only
\* compares the clock with the due time of a timer (a timer that is due stays
\* due) and with the enqueue time of an item (an item older than Earliest is
\* as stale as one enqueued at Earliest), so stored times stop at those two
\* marks (the time of the latest completion, kept to measure the wait before
\* the next item, stops once spawnDelayMs has passed), and the clock is left
\* alone unless a timer is still to fire or a queued item is still to go
\* stale.
Earliest == now - (staleThresholdMs + TickMs)
Older(item) ==
    IF item = NoItem
    THEN item
    ELSE [item EXCEPT !.enqueuedAt =
            IF @ - TickMs < Earliest THEN Earliest ELSE @ - TickMs]
\* The first mark at which spawnDelayMs has passed.
DelayPassed == now - ((spawnDelayMs + TickMs - 1) \div TickMs) * TickMs
Tick ==
    /\ \/ \E i \in DOMAIN loops :
              loops[i].pc \in {"awaitBackoff", "awaitDelay"} /\ loops[i].due > now
       \/ \E i \in DOMAIN queue : ~IsStale(now - queue[i].enqueuedAt)
    /\ queue' = [i \in DOMAIN queue |-> Older(queue[i])]
    /\ loops' = [i \in DOMAIN loops |->
                    [loops[i] EXCEPT
                        !.item = Older(@),
                        !.due = IF @ - TickMs < now THEN now ELSE @ - TickMs]]
    /\ lastCompleted' =
          [i \in DOMAIN lastCompleted |->
              IF lastCompleted[i] - TickMs < DelayPassed
              THEN DelayPassed ELSE lastCompleted[i] - TickMs]
    /\ lastCall' = NoCall
    /\ updates' = <<>>
    /\ UNCHANGED <<isProcessing, hasItemInFlight, isShutdown, pendingPromises,
                   promises>>
    /\ UNCHANGED <<mvars, rvars, ovars, lvars>>

(***************************************************************************)
(* TmuxSessionManager (src/src/tmux-session-manager.ts).  A step is again  *)
(* one run-to-suspension: the arrival of an event, a timer or a signal     *)
(* with all it executes synchronously, or the continuation of one `await`  *)
(* up to the next.  An activation's pc names the await it is suspended at: *)
(*   onSessionCreated  "awaitReady" (line 93), "awaitSpawn" (line 118)     *)
(*   pollSessions      "awaitStatus" (line 225), "awaitClose" (line 258,   *)
(*                     inside closeSession at line 332), "awaitHealth"     *)
(*                     (line 263)                                          *)
(*   recalculateLayout its awaits before the layout is computed (155-160)  *)
(*   cleanup           line 365, await Promise.all(closePromises)          *)
(* A closeTmuxPane call under way is kept with the activation awaiting it. *)
(* Times are read from the moving origin of `now`, like the queue's.       *)
(* Not modelled: titles and log calls.  A pane spawned for session s has   *)
(* the id s (tmux gives every pane an id of its own).                      *)
(***************************************************************************)
\* config.ts is not among the sources; the interval is the documented
\* default, the grace period one interval and the timeout two, scaled to the
\* model.
POLL_INTERVAL_MS == 2000
SESSION_MISSING_GRACE_MS == 2000
SESSION_TIMEOUT_MS == 4000

PollTickMs == POLL_INTERVAL_MS
MainPane == NumSessions + 1
\* The events of process.once (lines 276-280) and the reasons of a shutdown.
Signals == {"SIGINT", "SIGTERM", "SIGHUP", "SIGQUIT"}
Reasons == Signals \cup {"beforeExit", "server-unreachable"}
\* tmuxConfig.layout: the manager runs with the layout it recalculates.
layout == "dynamic-vertical"

\* SessionCreatedEvent (lines 32-35); id, parentID 0: the field is absent.
\* The events a session is created by, and one for each way to be none.
Event(type, id, parentID) == [type |-> type, id |-> id, parentID |-> parentID]
Events ==
    {Event("session.created", s, 1) : s \in SessionIds}
        \cup {Event("session.idle", 1, 1), Event("session.created", 0, 1),
              Event("session.created", 1, 0)}

\* The ways the spawnTmuxPane call for session s can settle.
SpawnPaneOutcomes(s) ==
    {[kind |-> "return", result |-> r] :
        r \in {Fail, Ok(s), [success |-> TRUE, paneId |-> 0]}}
        \cup {[kind |-> "throw", result |-> Exception]}

\* The ways client.session.status() can settle: it throws, or it returns a
\* response without data, or one whose data maps some session ids to a status.
StatusTypes == {"busy", "idle"}
StatusMaps ==
    UNION {[S -> StatusTypes] : S \in SUBSET SessionIds}
StatusOutcomes ==
    {[kind |-> "throw", hasData |-> FALSE, data |-> <<>>],
     [kind |-> "return", hasData |-> FALSE, data |-> <<>>]}
        \cup {[kind |-> "return", hasData |-> TRUE, data |-> d] : d \in StatusMaps}

\* The fields the synchronous code of a step transforms.
Manager ==
    [sessions |-> sessions, pollInterval |-> pollInterval, pollDue |-> pollDue,
     shuttingDown |-> shuttingDown, layouts |-> layouts, cleanups |-> cleanups,
     exited |-> exited, tmuxSessionKilled |-> tmuxSessionKilled,
     timers |-> timers]

ManagerCommit(m) ==
    /\ sessions' = m.sessions
    /\ pollInterval' = m.pollInterval
    /\ pollDue' = m.pollDue
    /\ shuttingDown' = m.shuttingDown
    /\ layouts' = m.layouts
    /\ cleanups' = m.cleanups
    /\ exited' = m.exited
    /\ tmuxSessionKilled' = m.tmuxSessionKilled
    /\ timers' = m.timers

(***************************************************************************)
(* The sessions Map: entries in insertion order.                           *)
(***************************************************************************)
TrackedIds(ss) == {ss[i].sessionId : i \in DOMAIN ss}
SessionsHas(ss, s) == s \in TrackedIds(ss)
SessionsGet(ss, s) == ss[CHOOSE i \in DOMAIN ss : ss[i].sessionId = s]
SessionsSet(ss, tracked) ==
    IF SessionsHas(ss, tracked.sessionId)
    THEN [i \in DOMAIN ss |->
            IF ss[i].sessionId = tracked.sessionId THEN tracked ELSE ss[i]]
    ELSE Append(ss, tracked)
SessionsDelete(ss, s) ==
    LET Other(tracked) == tracked.sessionId # s IN SelectSeq(ss, Other)
PanesOf(ss) == {ss[i].paneId : i \in DOMAIN ss}

\* Lines 131-139: the TrackedSession of a pane just spawned (missingSince is
\* <<>> when undefined, <<t>> when set).
NewTracked(s, parent, pane) ==
    [sessionId |-> s, paneId |-> pane, parentId |-> parent,
     createdAt |-> now, lastSeenAt |-> now, missingSince |-> <<>>]

\* Mutant: a timer is set although one is running.
startPolling_Always(m) ==
    [m EXCEPT !.pollInterval = TRUE, !.pollDue = now + POLL_INTERVAL_MS,
              !.timers = @ + 1]

\* startPolling (lines 200-208).
startPolling(m) ==
    IF m.pollInterval
    THEN m
    ELSE [m EXCEPT !.pollInterval = TRUE, !.pollDue = now + POLL_INTERVAL_MS,
                   !.timers = @ + 1]

\* stopPolling (lines 210-216): the timer pollInterval holds is cleared.
stopPolling(m) ==
    IF m.pollInterval
    THEN [m EXCEPT !.pollInterval = FALSE, !.pollDue = 0, !.timers = @ - 1]
    ELSE m

\* recalculateLayout (lines 151-198) up to its first await: one more
\* recomputation is under way, triggered now.
recalculateLayout(m) ==
    IF layout # "dynamic-vertical" \/ mainPaneId = 0
    THEN m
    ELSE [m EXCEPT !.layouts = Append(@, [triggeredAt |-> now])]

(***************************************************************************)
(* onSessionCreated (lines 91-149).                                        *)
(***************************************************************************)
\* Mutant: a session already tracked is spawned again.
ShouldSpawn_Untracked(ss, event) ==
    /\ enabled
    /\ event.type = "session.created"
    /\ event.id # 0 /\ event.parentID # 0

\* Lines 95-110: the event is one to spawn a pane for.
ShouldSpawn(ss, event) ==
    /\ enabled
    /\ event.type = "session.created"
    /\ event.id # 0 /\ event.parentID # 0
    /\ ~SessionsHas(ss, event.id)

\* onSessionCreated from line 95: the activations after the event is looked at.
HandleEvent(cs, ss, event) ==
    IF ShouldSpawn(ss, event)
    THEN Append(cs, [pc |-> "awaitSpawn", event |-> event])
    ELSE cs

\* Line 130: the spawn produced a pane.
PaneSpawned(result) == result.success /\ result.paneId # 0

\* Lines 118-128: the result of spawnTmuxPane, a rejection caught.
SpawnPaneResult(outcome) ==
    IF outcome.kind = "throw" THEN Fail ELSE outcome.result

\* onSessionCreated from line 130, once spawnTmuxPane has settled.
AfterSpawnPane(m, event, outcome) ==
    LET paneResult == SpawnPaneResult(outcome)
    IN  IF PaneSpawned(paneResult)
        THEN recalculateLayout(startPolling(
                [m EXCEPT !.sessions =
                    SessionsSet(@, NewTracked(event.id, event.parentID,
                                              paneResult.paneId))]))
        ELSE m

(***************************************************************************)
(* pollSessions (lines 218-268) and closeSession (lines 323-340).          *)
(***************************************************************************)
\* Line 226: statusResult.data ?? {}.
AllStatuses(outcome) ==
    IF outcome.hasData THEN outcome.data ELSE [s \in {} |-> "busy"]

\* Line 235: allStatuses[sessionId], <<>> when undefined.
StatusOf(allStatuses, s) ==
    IF s \in DOMAIN allStatuses THEN <<allStatuses[s]>> ELSE <<>>

\* Line 237.
IsIdle(status) == status # <<>> /\ status[1] = "idle"

\* Mutant: an absent poll always restamps missingSince.
Observe_Restamps(tracked, status) ==
    IF status # <<>>
    THEN [tracked EXCEPT !.lastSeenAt = now, !.missingSince = <<>>]
    ELSE [tracked EXCEPT !.missingSince = <<now>>]

\* Lines 239-244: what the poll notes in the TrackedSession.
Observe(tracked, status) ==
    IF status # <<>>
    THEN [tracked EXCEPT !.lastSeenAt = now, !.missingSince = <<>>]
    ELSE IF tracked.missingSince = <<>>
    THEN [tracked EXCEPT !.missingSince = <<now>>]
    ELSE tracked

\* Mutant: the grace period has to be exceeded (> for >=).
MissingTooLong_Strict(tracked) ==
    /\ tracked.missingSince # <<>>
    /\ now - tracked.missingSince[1] > SESSION_MISSING_GRACE_MS

\* Lines 246-248.
MissingTooLong(tracked) ==
    /\ tracked.missingSince # <<>>
    /\ now - tracked.missingSince[1] >= SESSION_MISSING_GRACE_MS

\* Line 250.
IsTimedOut(tracked) == now - tracked.createdAt > SESSION_TIMEOUT_MS

\* Lines 234-255: the sessions as the loop leaves them and the ids it
\* collects, in the order of the Map.
Reconcile(ss, allStatuses) ==
    LET seen == [i \in DOMAIN ss |->
                    Observe(ss[i], StatusOf(allStatuses, ss[i].sessionId))]
        Closes(tracked) ==
            \/ IsIdle(StatusOf(allStatuses, tracked.sessionId))
            \/ MissingTooLong(tracked)
            \/ IsTimedOut(tracked)
        closing == SelectSeq(seen, Closes)
    IN  [sessions |-> seen,
         sessionsToClose |-> [i \in DOMAIN closing |-> closing[i].sessionId]]

\* An activation of pollSessions: the ids still to close, the first of them
\* being closed, and the pane closeTmuxPane was called for (0: none).
PollAct(pc, sessionsToClose, closing) ==
    [pc |-> pc, sessionsToClose |-> sessionsToClose, closing |-> closing]

\* Lines 257-259 from the head of sessionsToClose: closeSession returns at
\* once for an id no longer tracked (line 325), and suspends in closeTmuxPane
\* for a tracked one.
RECURSIVE CloseNext(_, _)
CloseNext(m, sessionsToClose) ==
    IF sessionsToClose = <<>>
    THEN [m |-> m, act |-> PollAct("done", <<>>, 0)]
    ELSE IF ~SessionsHas(m.sessions, Head(sessionsToClose))
    THEN CloseNext(m, Tail(sessionsToClose))
    ELSE [m |-> m,
          act |-> PollAct("awaitClose", sessionsToClose,
                          SessionsGet(m.sessions, Head(sessionsToClose)).paneId)]

\* Mutant: the timer is stopped after every close.
AfterClosePane_AlwaysStops(m, s) ==
    stopPolling(recalculateLayout([m EXCEPT !.sessions = SessionsDelete(@, s)]))

\* closeSession from line 333, once closeTmuxPane has settled.
AfterClosePane(m, s) ==
    LET m1 == recalculateLayout([m EXCEPT !.sessions = SessionsDelete(@, s)])
    IN  IF m1.sessions = <<>> THEN stopPolling(m1) ELSE m1

\* pollSessions from its entry (lines 219-225).
PollSessions(m) ==
    IF m.sessions = <<>>
    THEN [m |-> stopPolling(m), act |-> PollAct("done", <<>>, 0)]
    ELSE [m |-> m, act |-> PollAct("awaitStatus", <<>>, 0)]

\* pollSessions from line 226, once the status call has settled.
AfterStatus(m, outcome) ==
    IF outcome.kind = "throw"
    THEN [m |-> m, act |-> PollAct("awaitHealth", <<>>, 0)]
    ELSE LET r == Reconcile(m.sessions, AllStatuses(outcome))
         IN  CloseNext([m EXCEPT !.sessions = r.sessions], r.sessionsToClose)

(***************************************************************************)
(* handleShutdown (lines 283-304) and cleanup (lines 350-370).             *)
(***************************************************************************)
\* Lines 299-303, once cleanup has settled: the process ends, by
\* process.exit or, after beforeExit, because nothing is left to run.
AfterCleanup(m, reason) == [m EXCEPT !.exited = TRUE]

\* Mutant: cleanup leaves the poll timer running.
cleanup_KeepsPolling(m, reason) ==
    IF m.sessions # <<>>
    THEN [m EXCEPT !.cleanups =
            Append(@, [reason |-> reason,
                       closePromises |-> PanesOf(m.sessions)])]
    ELSE AfterCleanup(m, reason)

\* cleanup up to its await (lines 351-365): a close is asked for every
\* tracked pane.  The activation keeps the panes and the reason of the
\* shutdown (line 300).
cleanup(m, reason) ==
    LET m1 == stopPolling(m)
    IN  IF m1.sessions # <<>>
        THEN [m1 EXCEPT !.cleanups =
                Append(@, [reason |-> reason,
                           closePromises |-> PanesOf(m1.sessions)])]
        ELSE AfterCleanup(m1, reason)

\* Mutant: every signal kills the tmux session.
KillsSession_Always(reason) == reason \in Signals

\* Line 291.
KillsSession(reason) == reason = "SIGINT"

\* Line 284.
AlreadyShuttingDown(m) == m.shuttingDown

handleShutdown(m, reason) ==
    IF AlreadyShuttingDown(m)
    THEN m
    ELSE LET m1 == [m EXCEPT !.shuttingDown = TRUE]
         IN  IF KillsSession(reason)
             THEN [m1 EXCEPT !.tmuxSessionKilled = TRUE, !.exited = TRUE]
             ELSE cleanup(m1, reason)

\* The activations after activation i has run to `act`.
ReplaceAct(as, i, act) ==
    IF act.pc = "done"
    THEN [j \in 1..(Len(as) - 1) |-> IF j < i THEN as[j] ELSE as[j + 1]]
    ELSE [as EXCEPT ![i] = act]
RemoveAct(as, i) == [j \in 1..(Len(as) - 1) |-> IF j < i THEN as[j] ELSE as[j + 1]]

(***************************************************************************)
(* The steps of the manager.                                               *)
(***************************************************************************)
\* initMainPaneId (lines 66-89) settles: tmux named the pane, or it did not.
InitMainPaneIdSettles(pane) ==
    /\ ~exited
    /\ readyPromise = "pending"
    /\ readyPromise' = "settled"
    /\ mainPaneId' = pane
    /\ UNCHANGED <<sessions, pollInterval, pollDue, enabled, shuttingDown, creates,
                   polls, layouts, cleanups, exited, tmuxSessionKilled,
                   timers>>
    /\ UNCHANGED <<vars, rvars, ovars, lvars>>

\* An event reaches the handler of createEventHandler (lines 342-348).
OnSessionCreated(event) ==
    /\ ~exited
    /\ Len(creates) < MaxCreates
    /\ creates' = IF readyPromise = "pending"
                  THEN Append(creates, [pc |-> "awaitReady", event |-> event])
                  ELSE HandleEvent(creates, sessions, event)
    /\ UNCHANGED <<sessions, pollInterval, pollDue, enabled, shuttingDown,
                   mainPaneId, readyPromise, polls, layouts, cleanups, exited,
                   tmuxSessionKilled, timers>>
    /\ UNCHANGED <<vars, rvars, ovars, lvars>>

\* readyPromise has settled; onSessionCreated goes on from line 95.
ReadyContinues(i) ==
    /\ ~exited
    /\ creates[i].pc = "awaitReady"
    /\ readyPromise = "settled"
    /\ creates' = HandleEvent(RemoveAct(creates, i), sessions, creates[i].event)
    /\ UNCHANGED <<sessions, pollInterval, pollDue, enabled, shuttingDown,
                   mainPaneId, readyPromise, polls, layouts, cleanups, exited,
                   tmuxSessionKilled, timers>>
    /\ UNCHANGED <<vars, rvars, ovars, lvars>>

\* spawnTmuxPane has settled; onSessionCreated goes on from line 130.
SpawnPaneSettles(i, outcome) ==
    /\ ~exited
    /\ creates[i].pc = "awaitSpawn"
    /\ Len(layouts) < MaxLayouts
    /\ ManagerCommit(AfterSpawnPane(Manager, creates[i].event, outcome))
    /\ creates' = RemoveAct(creates, i)
    /\ UNCHANGED <<enabled, mainPaneId, readyPromise, polls>>
    /\ UNCHANGED <<vars, rvars, ovars, lvars>>

\* recalculateLayout gets past its awaits: the layout is computed from the
\* sessions of this moment and applied (or tmux is not found: line 156).
LayoutRuns(i) ==
    /\ ~exited
    /\ i \in DOMAIN layouts
    /\ layouts' = RemoveAct(layouts, i)
    /\ UNCHANGED <<sessions, pollInterval, pollDue, enabled, shuttingDown,
                   mainPaneId, readyPromise, creates, polls, cleanups, exited,
                   tmuxSessionKilled, timers>>
    /\ UNCHANGED <<vars, rvars, ovars, lvars>>

\* The timer of setInterval fires (lines 203-206) and is due again one
\* interval later.
PollTimerFires ==
    /\ ~exited
    /\ pollInterval
    /\ now >= pollDue
    /\ Len(polls) < MaxPolls
    /\ LET r == PollSessions([Manager EXCEPT !.pollDue = now + POLL_INTERVAL_MS])
       IN  /\ ManagerCommit(r.m)
           /\ polls' = IF r.act.pc = "done" THEN polls ELSE Append(polls, r.act)
    /\ UNCHANGED <<enabled, mainPaneId, readyPromise, creates>>
    /\ UNCHANGED <<vars, rvars, ovars, lvars>>

\* client.session.status() has settled; pollSessions goes on from line 226.
StatusSettles(i, outcome) ==
    /\ ~exited
    /\ polls[i].pc = "awaitStatus"
    /\ LET r == AfterStatus(Manager, outcome)
       IN  /\ ManagerCommit(r.m)
           /\ polls' = ReplaceAct(polls, i, r.act)
    /\ UNCHANGED <<enabled, mainPaneId, readyPromise, creates>>
    /\ UNCHANGED <<vars, rvars, ovars, lvars>>

\* closeTmuxPane has settled; closeSession goes on from line 333 and
\* pollSessions with the next id.
CloseSettles(i) ==
    /\ ~exited
    /\ polls[i].pc = "awaitClose"
    /\ Len(layouts) < MaxLayouts
    /\ LET r == CloseNext(AfterClosePane(Manager, Head(polls[i].sessionsToClose)),
                          Tail(polls[i].sessionsToClose))
       IN  /\ ManagerCommit(r.m)
           /\ polls' = ReplaceAct(polls, i, r.act)
    /\ UNCHANGED <<enabled, mainPaneId, readyPromise, creates>>
    /\ UNCHANGED <<vars, rvars, ovars, lvars>>

\* isServerAlive (lines 306-321) has settled; pollSessions goes on from
\* line 264.
HealthSettles(i, serverAlive) ==
    /\ ~exited
    /\ polls[i].pc = "awaitHealth"
    /\ ManagerCommit(IF serverAlive
                     THEN Manager
                     ELSE handleShutdown(Manager, "server-unreachable"))
    /\ polls' = RemoveAct(polls, i)
    /\ UNCHANGED <<enabled, mainPaneId, readyPromise, creates>>
    /\ UNCHANGED <<vars, rvars, ovars, lvars>>

\* The event loop has nothing left to run.
Quiescent ==
    /\ ~pollInterval
    /\ readyPromise # "pending"
    /\ creates = <<>> /\ polls = <<>> /\ layouts = <<>> /\ cleanups = <<>>

\* A signal, or beforeExit, reaches its handler (lines 270-281; a disabled
\* manager registers none).  process.once lets each of them run once; which
\* of them are still registered is not kept, since one that runs after
\* another returns at line 284 whether it ran before or not.
Signal(reason) ==
    /\ ~exited
    /\ enabled
    /\ reason = "beforeExit" => Quiescent
    /\ ManagerCommit(handleShutdown(Manager, reason))
    /\ UNCHANGED <<enabled, mainPaneId, readyPromise, creates, polls>>
    /\ UNCHANGED <<vars, rvars, ovars, lvars>>

\* The closes of cleanup have settled (line 365); it goes on from line 366.
CleanupSettles(i) ==
    /\ ~exited
    /\ i \in DOMAIN cleanups
    /\ ManagerCommit(AfterCleanup([Manager EXCEPT !.sessions = <<>>,
                                                  !.cleanups = RemoveAct(@, i)],
                                  cleanups[i].reason))
    /\ UNCHANGED <<enabled, mainPaneId, readyPromise, creates, polls>>
    /\ UNCHANGED <<vars, rvars, ovars, lvars>>

\* Time passes for the manager, by one poll interval.  Stored times move
\* back and stop where the code can no longer tell them apart: a timer at
\* due, createdAt once the timeout is exceeded, missingSince once the grace
\* period is over, and lastSeenAt, which the code never compares, once it
\* is past.  The callback of a timer that is due runs before more time
\* passes, and so does a layout recomputation under way (its awaits, lines
\* 155-160, are local calls, and nothing else depends on it).
Past(t, mark) == IF t - PollTickMs < mark THEN mark ELSE t - PollTickMs
OlderTracked(tracked) ==
    [tracked EXCEPT
        !.createdAt = Past(@, now - (SESSION_TIMEOUT_MS + PollTickMs)),
        !.lastSeenAt = Past(@, now - PollTickMs),
        !.missingSince =
            [i \in DOMAIN @ |-> Past(@[i], now - SESSION_MISSING_GRACE_MS)]]
ManagerTick ==
    /\ ~exited
    /\ layouts = <<>>
    /\ IF pollInterval
       THEN pollDue > now
       ELSE \E i \in DOMAIN sessions : OlderTracked(sessions[i]) # sessions[i]
    /\ sessions' = [i \in DOMAIN sessions |-> OlderTracked(sessions[i])]
    /\ pollDue' = IF pollInterval THEN Past(pollDue, now) ELSE pollDue
    /\ UNCHANGED <<pollInterval, enabled, shuttingDown, mainPaneId, readyPromise,
                   creates, polls, layouts, cleanups, exited, tmuxSessionKilled,
                   timers>>
    /\ UNCHANGED <<vars, rvars, ovars, lvars>>

(***************************************************************************)
(* The zombie reaper: class ZombieReaper (src/src/utils/index.ts), in      *)
(* continuous mode.  A step is again one run-to-suspension: a timer        *)
(* callback or a public call with what it runs synchronously, or the       *)
(* continuation of one await of scanOnce / reapProcess.  The await of      *)
(* findAllAttachProcesses (line 188) resolves without waiting for anything *)
(* outside the program (the process table is read synchronously), so the   *)
(* scan runs on to the status query in the step that starts it.            *)
(*                                                                         *)
(* An attach process is its pid; pid p claims session p and targets this   *)
(* server ("mine") or another one ("other", which stands for every         *)
(* targetUrl areUrlsEqual rejects, null included).  A url is kept as the   *)
(* parts the URL parser finds in its text: the scheme ("" when the text    *)
(* has none), the host name and the port.  Not modelled: the log calls     *)
(* other than the one of a skipped scan.                                   *)
(***************************************************************************)
\* The url of a text such as "http://localhost:4096" or "localhost:4096".
Url(scheme, hostname, port) ==
    [scheme |-> scheme, hostname |-> hostname, port |-> port]

\* targetUrl: null (no token follows `attach` in the command line).
NoUrl == Url("null", "", 0)

\* this.serverUrl: the endpoint the reaper was constructed with.
serverUrl == Url("http", "127.0.0.1", OPENCODE_PORT_START)

\* The target urls of the attach processes of the machine: this server
\* written without a scheme and as localhost, a server on the next port,
\* and no url.
TargetUrls ==
    {Url("", "localhost", OPENCODE_PORT_START),
     Url("http", "127.0.0.1", OPENCODE_PORT_START + 1),
     NoUrl}

\* normalize of areUrlsEqual (lines 274-285): the origin of the url.
normalize(u) ==
    LET withProtocol ==
            IF u.scheme \in {"http", "https"} THEN u
            ELSE [u EXCEPT !.scheme = "http"]
        urlObj ==
            IF withProtocol.hostname = "localhost"
            THEN [withProtocol EXCEPT !.hostname = "127.0.0.1"]
            ELSE withProtocol
    IN  urlObj

\* A mutant of areUrlsEqual: the ports are not compared.
areUrlsEqual_IgnoresPort(url1, url2) ==
    /\ url1 # NoUrl
    /\ normalize(url1).scheme = normalize(url2).scheme
    /\ normalize(url1).hostname = normalize(url2).hostname

\* areUrlsEqual (lines 270-291).  Every url of the model parses, so the
\* catch branch (line 289) is not reached.
areUrlsEqual(url1, url2) ==
    /\ url1 # NoUrl
    /\ normalize(url1) = normalize(url2)

AttachProcess(pid) ==
    [pid |-> pid, sessionId |-> pid, targetUrl |-> targetUrl[pid]]

\* What GET /session/status can produce (lines 333-404).  `ids` are the
\* session ids the payload names, `length` the number of entries of an
\* array.
Payloads ==
    \* the fetch rejects or times out, the response is not ok, the body is
    \* not JSON or not an object
    {[kind |-> "error", ids |-> {}, length |-> 0]}
    \* an object without `data` whose keys are no session ids, {} included
    \cup {[kind |-> "other-object", ids |-> {}, length |-> 0]}
    \* { ses_a: ..., ses_b: ... }: the payload itself is the map
    \cup {[kind |-> "bare-map", ids |-> S, length |-> 0] : S \in SUBSET Pids \ {{}}}
    \* { data: { ses_a: ..., ses_b: ... } }
    \cup {[kind |-> "data-map", ids |-> S, length |-> 0] : S \in SUBSET Pids}
    \* { data: [ {id: ses_a}, ... ] }
    \cup {[kind |-> "data-array", ids |-> S, length |-> Cardinality(S)] :
              S \in SUBSET Pids}
    \* { data: [ x ] } with an item that has neither id nor sessionId
    \cup {[kind |-> "data-array", ids |-> {}, length |-> 1]}

\* The value of fetchActiveSessions: a Set of session ids, or null.
Null == [isSet |-> FALSE, ids |-> {}]
SetOf(S) == [isSet |-> TRUE, ids |-> S]

\* A mutant of fetchActiveSessions: a failed query reads as "no sessions".
fetchActiveSessions_EmptyOnError(payload) ==
    IF payload.kind \in {"error", "other-object"}
    THEN SetOf({})
    ELSE IF payload.kind = "data-array" /\ payload.ids = {}
         THEN SetOf({})
         ELSE SetOf(payload.ids)

fetchActiveSessions(payload) ==
    CASE payload.kind = "error" -> Null
      [] payload.kind = "other-object" -> Null
      [] payload.kind = "bare-map" ->
            IF payload.ids # {} THEN SetOf(payload.ids) ELSE Null
      [] payload.kind = "data-array" ->
            IF payload.ids # {} THEN SetOf(payload.ids)
            ELSE IF payload.length = 0 THEN SetOf({}) ELSE Null
      [] payload.kind = "data-map" -> SetOf(payload.ids)

\* No scan under way / the activation of scanOnce at one of its awaits.
\* An activation also records what its scan has done so far: the processes
\* it has handed to reapProcess, and the count each process had in the
\* candidate map when the scan began (0 for a process without an entry).
NoScan ==
    [pc |-> "none", todo |-> <<>>, activeSessions |-> {}, currentPids |-> {},
     proc |-> 0, waitDue |-> 0, reaped |-> {},
     startCount |-> [pid \in Pids |-> 0]]
AwaitFetch(myProcesses) == [NoScan EXCEPT !.pc = "awaitFetch", !.todo = myProcesses]
AwaitExit(pid, rest, active, seen) ==
    [NoScan EXCEPT !.pc = "awaitExit", !.todo = rest,
                   !.activeSessions = active, !.currentPids = seen,
                   !.proc = pid, !.waitDue = now + EXIT_WAIT_MS]

\* The count of each process in a candidate map.
CountsOf(c) == [pid \in Pids |-> IF MapHas(c, pid) THEN c[pid].count ELSE 0]

\* The reaper's fields and what it has done, as one value the synchronous
\* code of a step transforms.
Reaper ==
    [candidates |-> candidates, isScanning |-> isScanning,
     lastActivityTime |-> lastActivityTime,
     reaperPollInterval |-> reaperPollInterval, scanDue |-> scanDue,
     scan |-> scan, kills |-> <<>>, logged |-> <<>>, signalled |-> signalled,
     reaperExited |-> reaperExited, finalScan |-> finalScan,
     idleSince |-> idleSince]

ReaperCommit(r) ==
    /\ candidates' = r.candidates
    /\ isScanning' = r.isScanning
    /\ lastActivityTime' = r.lastActivityTime
    /\ reaperPollInterval' = r.reaperPollInterval
    /\ scanDue' = r.scanDue
    /\ scan' = r.scan
    /\ kills' = r.kills
    /\ logged' = r.logged
    /\ signalled' = r.signalled
    /\ reaperExited' = r.reaperExited
    /\ finalScan' = r.finalScan
    /\ idleSince' = r.idleSince

\* safeKill(pid, signal)
safeKill(r, pid, signal) ==
    [r EXCEPT !.kills = Append(@, [pid |-> pid, signal |-> signal]),
              !.signalled[pid] = @ \cup {signal}]

\* markAsZombie (lines 406-416)
markAsZombie(c, pid) ==
    IF MapHas(c, pid)
    THEN [c EXCEPT ![pid].count = @ + 1]
    ELSE MapSet(c, pid, [count |-> 1, firstDetectedAt |-> now])

\* A mutant of shouldKill: one of the two conditions is enough.
shouldKill_Either(c, pid) ==
    /\ MapHas(c, pid)
    /\ \/ c[pid].count >= minZombieChecks
       \/ now - c[pid].firstDetectedAt >= gracePeriodMs

\* shouldKill (lines 418-426)
shouldKill(c, pid) ==
    /\ MapHas(c, pid)
    /\ LET meetsCount == c[pid].count >= minZombieChecks
           meetsGrace == now - c[pid].firstDetectedAt >= gracePeriodMs
       IN  meetsCount /\ meetsGrace

\* A mutant of pruneCandidates: no entry is dropped.
pruneCandidates_KeepsAll(c, currentPids) == c

\* pruneCandidates (lines 261-268)
pruneCandidates(c, currentPids) ==
    [pid \in DOMAIN c \cap currentPids |-> c[pid]]

\* The loop of scanOnce (lines 233-250) from the process at the head of
\* todo, up to the wait of the next reapProcess (lines 431-432) or to the
\* end of the scan (lines 252-258).
RECURSIVE Classify(_, _, _, _)
Classify(r, todo, active, seen) ==
    IF todo = <<>>
    THEN [r EXCEPT !.candidates = pruneCandidates(@, seen),
                   !.isScanning = FALSE, !.scan = NoScan]
    ELSE LET proc == AttachProcess(Head(todo))
             currentPids == seen \cup {proc.pid}
             isZombie == proc.sessionId \notin active
         IN  IF isZombie
             THEN LET marked ==
                          [r EXCEPT !.candidates = markAsZombie(@, proc.pid)]
                  IN  IF shouldKill(marked.candidates, proc.pid)
                      THEN [safeKill(marked, proc.pid, "SIGTERM") EXCEPT
                               !.scan =
                                   [AwaitExit(proc.pid, Tail(todo), active,
                                              currentPids) EXCEPT
                                       !.reaped = r.scan.reaped \cup {proc.pid},
                                       !.startCount = r.scan.startCount]]
                      ELSE Classify(marked, Tail(todo), active, currentPids)
             ELSE Classify([r EXCEPT !.candidates = MapDelete(@, proc.pid)],
                           Tail(todo), active, currentPids)

\* The pids of ps that are in S, in ascending order.
RECURSIVE PidSeq(_, _)
PidSeq(S, from) ==
    IF from > NumProcs THEN <<>>
    ELSE IF from \in S THEN <<from>> \o PidSeq(S, from + 1)
         ELSE PidSeq(S, from + 1)

\* process.exit(0) is reached (lines 199-212): no attach process of this
\* server was found, and the server has been idle for too long.
SelfDestructs(r, mine) ==
    /\ mine = {}
    /\ autoSelfDestruct
    /\ selfDestructTimeoutMs # 0
    /\ now - r.lastActivityTime > selfDestructTimeoutMs

\* What a scan that found the processes `mine` of this server adds to the
\* record of successive idle scans.
Observed(r, mine) ==
    [r EXCEPT !.idleSince = IF mine # {} THEN <<>>
                            ELSE IF @ = <<>> THEN <<now>> ELSE @]

\* A mutant of ScanInProgress: scanOnce has no in-progress guard.
ScanInProgress_Never(r) == FALSE

\* The guard of scanOnce (line 184): a scan is under way.
ScanInProgress(r) == r.isScanning

\* scanOnce up to its first real wait (lines 183-225).
scanOnce(r) ==
    LET found == {pid \in Pids : processes[pid] # "gone"}
        mine == {pid \in found :
                    areUrlsEqual(AttachProcess(pid).targetUrl, serverUrl)}
        seen == Observed(r, mine)
    IN  IF ScanInProgress(r) THEN r
        ELSE IF found = {}
        THEN [seen EXCEPT !.candidates = [x \in {} |-> 0]]
        ELSE IF SelfDestructs(seen, mine)
        THEN [seen EXCEPT !.isScanning = TRUE, !.reaperExited = TRUE]
        ELSE IF mine = {}
        THEN [seen EXCEPT !.candidates = pruneCandidates(@, {})]
        ELSE [seen EXCEPT !.lastActivityTime = now, !.isScanning = TRUE,
                          !.scan = [AwaitFetch(PidSeq(mine, 1)) EXCEPT
                                       !.startCount = CountsOf(r.candidates)]]

\* start() (lines 161-167), with options.enabled.
ReaperStart ==
    /\ ~reaperExited
    /\ ~finalScan
    /\ ~reaperPollInterval
    /\ ReaperCommit([Reaper EXCEPT !.reaperPollInterval = TRUE,
                                   !.scanDue = now + reaperIntervalMs])
    /\ UNCHANGED <<processes, autoSelfDestruct, targetUrl>>
    /\ UNCHANGED <<vars, mvars, ovars, lvars>>

\* The interval timer fires: scanOnce() (line 166).
ScanTimerFires ==
    /\ ~reaperExited
    /\ reaperPollInterval
    /\ scanDue <= now
    /\ ReaperCommit(scanOnce([Reaper EXCEPT !.scanDue = now + reaperIntervalMs]))
    /\ UNCHANGED <<processes, autoSelfDestruct, targetUrl>>
    /\ UNCHANGED <<vars, mvars, ovars, lvars>>

\* shutdown() (lines 177-181): stop(), then a final scanOnce().
ReaperShutdown ==
    /\ ~reaperExited
    /\ ~finalScan
    /\ ReaperCommit(scanOnce([Reaper EXCEPT !.reaperPollInterval = FALSE,
                                            !.scanDue = 0,
                                            !.finalScan = TRUE]))
    /\ UNCHANGED <<processes, autoSelfDestruct, targetUrl>>
    /\ UNCHANGED <<vars, mvars, ovars, lvars>>

\* The status query of a scan settles (lines 225-258).
FetchSettles(payload) ==
    /\ ~reaperExited
    /\ scan.pc = "awaitFetch"
    /\ LET activeSessions == fetchActiveSessions(payload)
       IN  IF ~activeSessions.isSet
           THEN ReaperCommit([Reaper EXCEPT
                                 !.logged = <<"server unreachable, skipping scan">>,
                                 !.isScanning = FALSE, !.scan = NoScan])
           ELSE ReaperCommit(Classify(Reaper, scan.todo, activeSessions.ids, {}))
    /\ UNCHANGED <<processes, autoSelfDestruct, targetUrl>>
    /\ UNCHANGED <<vars, mvars, ovars, lvars>>

\* A mutant of ForceKills: SIGKILL follows SIGTERM at once.
ForceKills_Always(exitedInTime) == TRUE

\* reapProcess sends SIGKILL (lines 434-437).
ForceKills(exitedInTime) == ~exitedInTime

\* waitForProcessExit(pid, timeoutMs), a helper of utils/process: it
\* settles with true once the process is gone, and with false when the
\* bounded timeout has passed with the process still alive.
WaitOver(pid, due) == processes[pid] = "gone" \/ due <= now

\* waitForProcessExit(pid, 2000) settles (lines 432-439); the scan goes on
\* with the next process.
ExitSettles ==
    /\ ~reaperExited
    /\ scan.pc = "awaitExit"
    /\ LET exitedInTime == processes[scan.proc] = "gone"
           killed == IF ForceKills(exitedInTime)
                     THEN safeKill(Reaper, scan.proc, "SIGKILL")
                     ELSE Reaper
           reaped == [killed EXCEPT !.candidates = MapDelete(@, scan.proc)]
       IN  /\ WaitOver(scan.proc, scan.waitDue)
           /\ ReaperCommit(Classify(reaped, scan.todo, scan.activeSessions,
                                    scan.currentPids))
    /\ UNCHANGED <<processes, autoSelfDestruct, targetUrl>>
    /\ UNCHANGED <<vars, mvars, ovars, lvars>>

\* An attach process ends, by itself or on a signal.
ProcessExits(pid) ==
    /\ ~reaperExited
    /\ processes[pid] # "gone"
    /\ processes' = [processes EXCEPT ![pid] = "gone"]
    /\ kills' = <<>>
    /\ logged' = <<>>
    /\ UNCHANGED <<candidates, isScanning, lastActivityTime, reaperPollInterval,
                   scanDue, scan, signalled, reaperExited, finalScan,
                   idleSince, autoSelfDestruct, targetUrl>>
    /\ UNCHANGED <<vars, mvars, ovars, lvars>>

\* One interval of time passes.  Times the code no longer tells apart are
\* kept at one value: firstDetectedAt once the grace period is over,
\* lastActivityTime once the idle timeout is exceeded.  A timer that is due
\* fires before more time passes.
ReaperPast(t, mark) ==
    IF t - reaperIntervalMs < mark THEN mark ELSE t - reaperIntervalMs
Aged(r) ==
    [r EXCEPT
        !.candidates =
            [pid \in DOMAIN @ |->
                [@[pid] EXCEPT !.firstDetectedAt =
                                   ReaperPast(@, now - gracePeriodMs)]],
        !.lastActivityTime =
            ReaperPast(@, now - (selfDestructTimeoutMs + reaperIntervalMs)),
        !.idleSince =
            [i \in DOMAIN @ |->
                ReaperPast(@[i], now - (selfDestructTimeoutMs + reaperIntervalMs))],
        !.scanDue = IF r.reaperPollInterval THEN ReaperPast(@, now) ELSE @,
        !.scan.waitDue = IF r.scan.pc = "awaitExit" THEN ReaperPast(@, now) ELSE @]
ReaperTick ==
    /\ ~reaperExited
    /\ reaperPollInterval => scanDue > now
    /\ scan.pc = "awaitExit" => scan.waitDue > now
    /\ Aged(Reaper) # Reaper
    /\ ReaperCommit(Aged(Reaper))
    /\ UNCHANGED <<processes, autoSelfDestruct, targetUrl>>
    /\ UNCHANGED <<vars, mvars, ovars, lvars>>

\* The reaper's fields as its constructor leaves them (lines 49-60).
ReaperFields ==
    /\ candidates = [x \in {} |-> 0]
    /\ isScanning = FALSE
    /\ lastActivityTime = now
    /\ reaperPollInterval = FALSE
    /\ scanDue = 0
    /\ scan = NoScan
    /\ kills = <<>>
    /\ logged = <<>>
    /\ signalled = [pid \in Pids |-> {}]
    /\ reaperExited = FALSE
    /\ finalScan = FALSE
    /\ idleSince = <<>>

\* A new reaper and the attach processes of the machine, each with the
\* url of its command line; a process is "mine" when areUrlsEqual finds it
\* to target this server, and a process that is gone has no command line.
ReaperConstructed ==
    /\ ReaperFields
    /\ targetUrl \in [Pids -> TargetUrls]
    /\ processes \in [Pids -> {"mine", "other", "gone"}]
    /\ \A pid \in Pids :
           /\ processes[pid] = "mine" =>
                  areUrlsEqual(targetUrl[pid], serverUrl)
           /\ processes[pid] = "other" =>
                  ~areUrlsEqual(targetUrl[pid], serverUrl)
           /\ processes[pid] = "gone" => targetUrl[pid] = NoUrl
    /\ autoSelfDestruct \in BOOLEAN

\* No reaper: no attach process, self-destruct off.
ReaperOff ==
    /\ ReaperConstructed
    /\ processes = [pid \in Pids |-> "gone"]
    /\ ~autoSelfDestruct

(***************************************************************************)
(* The zombie reaper in one-shot global mode: the static methods reapAll   *)
(* and reapServers (src/src/utils/index.ts).  reapAll first runs           *)
(* reapServers over the ports OPENCODE_PORT_START .. OPENCODE_PORT_START + *)
(* maxPorts, then checks the attach processes of the machine against the   *)
(* server each of them targets.  An attach process targets one of two      *)
(* servers ("mine", "other") or has no targetUrl ("unknown").  One process *)
(* at most listens on a port: an opencode server ("opencode"; node and bun *)
(* count as such, line 455) or something else ("unrelated").                 *)
(***************************************************************************)
Ports == OPENCODE_PORT_START..(OPENCODE_PORT_START + maxPorts)

NoOneShot ==
    [pc |-> "none", port |-> 0, attempt |-> 0, url |-> "unknown", urls |-> <<>>,
     attach |-> <<>>, reapedCount |-> 0]

\* The state of the one-shot run, as one value the synchronous code of a
\* step transforms.
OneShot ==
    [run |-> oneShot, serverSignals |-> serverSignals,
     forceKilled |-> forceKilled]

OneShotCommit(o) ==
    /\ oneShot' = o.run
    /\ serverSignals' = o.serverSignals
    /\ forceKilled' = o.forceKilled

\* The target urls of the processes of ps, in the order Map byUrl lists
\* them (lines 99-105).
RECURSIVE UrlsOf(_, _)
UrlsOf(ps, acc) ==
    IF ps = <<>> THEN acc
    ELSE LET url == processes[Head(ps)]
         IN  UrlsOf(Tail(ps),
                    IF \E i \in DOMAIN acc : acc[i] = url
                    THEN acc ELSE Append(acc, url))

\* forceKill (lines 153-159) for every process of ps that is to die.
ForceKillAll(o, ps) == [o EXCEPT !.forceKilled = @ \cup ps]

\* The loop over byUrl (lines 109-148) from the url at the head of urls, up
\* to the next status query or to the end of reapAll.
RECURSIVE NextUrl(_, _)
NextUrl(o, urls) ==
    IF urls = <<>>
    THEN [o EXCEPT !.run.pc = "done", !.run.urls = <<>>]
    ELSE IF Head(urls) = "unknown"
         THEN NextUrl(o, Tail(urls))
         ELSE [o EXCEPT !.run.pc = "awaitStatus", !.run.url = Head(urls),
                        !.run.urls = Tail(urls)]

\* Step 2 of reapAll (lines 89-107), after reapServers has returned.
ReapAttachProcesses(o) ==
    LET found == PidSeq({pid \in Pids : processes[pid] # "gone"}, 1)
    IN  IF found = <<>>
        THEN [o EXCEPT !.run.pc = "done"]
        ELSE NextUrl([o EXCEPT !.run.attach = found], UrlsOf(found, <<>>))

\* The loop of reapServers over the ports (lines 446-456), from `port` up to
\* the first status query or to the return of reapServers.
RECURSIVE ScanPorts(_, _)
ScanPorts(o, port) ==
    IF port > OPENCODE_PORT_START + maxPorts
    THEN ReapAttachProcesses(o)
    ELSE LET isSuspicious == servers[port] = "opencode"
         IN  IF isSuspicious
             THEN [o EXCEPT !.run.pc = "awaitProbe", !.run.port = port,
                            !.run.attempt = 0]
             ELSE ScanPorts(o, port + 1)

\* reapAll() is called (lines 66-84).
ReapAllStarts ==
    /\ oneShot.pc = "none"
    /\ OneShotCommit(ScanPorts(OneShot, OPENCODE_PORT_START))
    /\ UNCHANGED servers
    /\ UNCHANGED <<vars, mvars, rvars, lvars>>

\* A mutant of ServerInactive: a server that reports sessions counts as inactive.
ServerInactive_Any(probed) == TRUE

\* reapServers kills (lines 473, 502): the status queries gave no set of
\* sessions, or an empty one.
ServerInactive(probed) ==
    \/ ~probed.isSet
    \/ probed.ids = {}

\* A status query of reapServers settles (lines 467-470): attempt i of the
\* loop `for (let i = 0; i < 3; i++)`.
ProbeSettles(payload) ==
    /\ oneShot.pc = "awaitProbe"
    /\ LET probed == fetchActiveSessions(payload)
           i == oneShot.attempt
       IN  IF ~probed.isSet /\ i < PROBE_ATTEMPTS - 1
           THEN OneShotCommit([OneShot EXCEPT !.run.pc = "awaitRetry"])
           ELSE IF ServerInactive(probed)
           THEN OneShotCommit(
                    [OneShot EXCEPT
                        !.serverSignals[oneShot.port] = Append(@, "SIGTERM"),
                        !.run.pc = "awaitExit"])
           ELSE OneShotCommit(ScanPorts(OneShot, oneShot.port + 1))
    /\ UNCHANGED servers
    /\ UNCHANGED <<vars, mvars, rvars, lvars>>

\* The delay between two attempts is over (line 470).
RetryDelayFires ==
    /\ oneShot.pc = "awaitRetry"
    /\ OneShotCommit([OneShot EXCEPT !.run.pc = "awaitProbe",
                                     !.run.attempt = @ + 1])
    /\ UNCHANGED servers
    /\ UNCHANGED <<vars, mvars, rvars, lvars>>

\* waitForProcessExit(pid, 2000) settles (lines 479-484, 506-511).
ServerExitSettles(exitedInTime) ==
    /\ oneShot.pc = "awaitExit"
    /\ IF exitedInTime
       THEN OneShotCommit(
                ScanPorts([OneShot EXCEPT !.run.reapedCount = @ + 1],
                          oneShot.port + 1))
       ELSE OneShotCommit(
                [OneShot EXCEPT
                    !.serverSignals[oneShot.port] = Append(@, "SIGKILL"),
                    !.run.pc = "awaitKilled"])
    /\ UNCHANGED servers
    /\ UNCHANGED <<vars, mvars, rvars, lvars>>

\* waitForProcessExit(pid, 1000) settles (lines 483-487, 510-514).
ServerKilledSettles ==
    /\ oneShot.pc = "awaitKilled"
    /\ OneShotCommit(
            ScanPorts([OneShot EXCEPT !.run.reapedCount = @ + 1],
                      oneShot.port + 1))
    /\ UNCHANGED servers
    /\ UNCHANGED <<vars, mvars, rvars, lvars>>

\* The processes of one url that reapAll kills (lines 125-146).
Zombies(procs, activeSessions) ==
    IF ~activeSessions.isSet
    THEN procs
    ELSE {pid \in procs : AttachProcess(pid).sessionId \notin activeSessions.ids}

\* The status query of reapAll for one url settles (lines 116-147).
ReapAllStatusSettles(payload) ==
    /\ oneShot.pc = "awaitStatus"
    /\ LET activeSessions == fetchActiveSessions(payload)
           procs == {oneShot.attach[i] : i \in
                        {j \in DOMAIN oneShot.attach :
                            processes[oneShot.attach[j]] = oneShot.url}}
       IN  OneShotCommit(
                NextUrl(ForceKillAll(OneShot, Zombies(procs, activeSessions)),
                        oneShot.urls))
    /\ UNCHANGED servers
    /\ UNCHANGED <<vars, mvars, rvars, lvars>>

\* Before reapAll is called: the listeners of the ports, no signal sent.
OneShotIdle ==
    /\ oneShot = NoOneShot
    /\ servers \in [Ports -> {"none", "opencode", "unrelated"}]
    /\ serverSignals = [port \in Ports |-> <<>>]
    /\ forceKilled = {}

\* No one-shot run: nothing listens.
OneShotOff ==
    /\ OneShotIdle
    /\ servers = [port \in Ports |-> "none"]

(***************************************************************************)
(* The layout engine: the pure functions of src/src/layout.ts, and the     *)
(* function generateLayoutString of src/src/utils/layout.ts that the       *)
(* manager calls (recalculateLayout, lines 173-180).  The inputs are drawn *)
(* when the state is set up; each action applies one function to them and  *)
(* keeps its result.  Of generateLayoutString the model keeps the panes of *)
(* each column, which is what the geometry of the string is computed from; *)
(* the window is taken to have positive dimensions.                        *)
(***************************************************************************)
\* A value a function returns / the Error it throws.
Returned(v) == [ran |-> TRUE, threw |-> FALSE, value |-> v]
Thrown == [ran |-> TRUE, threw |-> TRUE, value |-> 0]
NotRun == [ran |-> FALSE, threw |-> FALSE, value |-> 0]

\* Math.ceil(a / b) for positive a and b.
MathCeil(a, b) == (a + b - 1) \div b

\* A mutant of computeColumnCount: a column too many when the agents fill
\* the columns exactly.
computeColumnCount_OffByOne(totalAgents, maxPerColumn) ==
    IF totalAgents <= 0
    THEN Returned(0)
    ELSE IF maxPerColumn <= 0
         THEN Thrown
         ELSE Returned((totalAgents \div maxPerColumn) + 1)

\* computeColumnCount (layout.ts, lines 27-38)
computeColumnCount(totalAgents, maxPerColumn) ==
    IF totalAgents <= 0
    THEN Returned(0)
    ELSE IF maxPerColumn <= 0
         THEN Thrown
         ELSE Returned(MathCeil(totalAgents, maxPerColumn))

\* distributeAgentsRoundRobin (layout.ts, lines 58-74).  columnAssignments
\* is a JavaScript array: agent i is at position i + 1 of the sequence.
distributeAgentsRoundRobin(count, maxPerColumn) ==
    LET numColumns == computeColumnCount(count, maxPerColumn)
    IN  IF numColumns.threw
        THEN Thrown
        ELSE IF numColumns.value = 0
        THEN Returned([numColumns |-> 0, columnAssignments |-> <<>>])
        ELSE Returned([numColumns |-> numColumns.value,
                       columnAssignments |->
                           [i \in 1..count |-> (i - 1) % numColumns.value]])

\* The elements of agentIds whose assignment is column c, in order.
RECURSIVE ColumnMembers(_, _, _)
ColumnMembers(agentIds, columnAssignments, c) ==
    IF agentIds = <<>> THEN <<>>
    ELSE (IF Head(columnAssignments) = c THEN <<Head(agentIds)>> ELSE <<>>)
            \o ColumnMembers(Tail(agentIds), Tail(columnAssignments), c)

\* groupAgentsByColumn (layout.ts, lines 83-104)
groupAgentsByColumn(agentIds, maxPerColumn) ==
    LET distributed == distributeAgentsRoundRobin(Len(agentIds), maxPerColumn)
    IN  IF distributed.threw
        THEN Thrown
        ELSE IF distributed.value.numColumns = 0
        THEN Returned(<<>>)
        ELSE Returned([c \in 1..distributed.value.numColumns |->
                          ColumnMembers(agentIds,
                                        distributed.value.columnAssignments,
                                        c - 1)])

\* The loop of generateLayoutString over the columns (utils/layout.ts,
\* lines 58-78): the pane ids of column c and of the columns after it.
RECURSIVE SliceColumns(_, _, _, _, _)
SliceColumns(cleanPaneIds, limit, numCols, c, agentsProcessed) ==
    IF c >= numCols THEN <<>>
    ELSE LET remainingAgents == Len(cleanPaneIds) - agentsProcessed
             agentsInThisCol ==
                 IF remainingAgents < limit THEN remainingAgents ELSE limit
             colPaneIds == SubSeq(cleanPaneIds, agentsProcessed + 1,
                                  agentsProcessed + agentsInThisCol)
         IN  <<colPaneIds>> \o
                 SliceColumns(cleanPaneIds, limit, numCols, c + 1,
                              agentsProcessed + agentsInThisCol)

\* generateLayoutString (utils/layout.ts, lines 10-96): the columns of the
\* subagent area; none when only the main pane is rendered.
generateLayoutString(paneIds, mainPaneId_, maxPerColumn) ==
    LET cleanPaneIds == SelectSeq(paneIds, LAMBDA id : id # mainPaneId_)
        numSubagents == Len(cleanPaneIds)
        limit == IF maxPerColumn > 0 THEN maxPerColumn ELSE numSubagents
    IN  IF numSubagents = 0
        THEN Returned(<<>>)
        ELSE Returned(SliceColumns(cleanPaneIds, limit,
                                   MathCeil(numSubagents, limit), 0, 0))

(***************************************************************************)
(* The string generateLayoutString returns.  A string is the sequence of   *)
(* its character codes.  The function assembles the string from template   *)
(* literals, one per node of the layout; the model keeps each node as a    *)
(* cell (its size, its offset, its pane or its children) and dumpCell      *)
(* writes a cell exactly as the template literals of lines 89, 93, 118 and *)
(* 122 do, so that the geometry of the string can be read off the cells.   *)
(***************************************************************************)
\* Number.prototype.toString(): the decimal digits of a natural number.
RECURSIVE Decimal(_)
Decimal(n) ==
    IF n < 10 THEN <<48 + n>> ELSE Decimal(n \div 10) \o <<48 + (n % 10)>>

\* Number.prototype.toString(16): lowercase digits, no leading zeros.
RECURSIVE toString16(_)
toString16(n) ==
    LET digit(d) == IF d < 10 THEN 48 + d ELSE 87 + d
    IN  IF n < 16 THEN <<digit(n)>>
        ELSE toString16(n \div 16) \o <<digit(n % 16)>>

\* String.prototype.padStart(targetLength, '0')
RECURSIVE padStart(_, _)
padStart(text, targetLength) ==
    IF Len(text) >= targetLength THEN text
    ELSE padStart(<<48>> \o text, targetLength)

\* A pane id as tmux prints it: "%" and the number of the pane.
PaneIdText(id) == <<37>> \o Decimal(id)

\* formatNode (utils/layout.ts, lines 121-123): the cell of one pane.
formatNode(w, h, x, y, id) ==
    [type |-> "WINDOWPANE", sx |-> w, sy |-> h, xoff |-> x, yoff |-> y,
     id |-> id, children |-> <<>>]

\* A cell with children: "LEFTRIGHT" is written with {}, "TOPBOTTOM" with [].
SplitCell(type, w, h, x, y, children) ==
    [type |-> type, sx |-> w, sy |-> h, xoff |-> x, yoff |-> y,
     id |-> 0, children |-> children]

\* The empty string buildColumn returns for no panes.
NoCell ==
    [type |-> "NONE", sx |-> 0, sy |-> 0, xoff |-> 0, yoff |-> 0,
     id |-> 0, children |-> <<>>]

\* The loop of buildColumn (utils/layout.ts, lines 109-115): the rows from
\* row i (0-based) on.
RECURSIVE ColumnRows(_, _, _, _, _, _, _)
ColumnRows(w, h, x, y, paneIds, i, currentY) ==
    IF i >= Len(paneIds) THEN <<>>
    ELSE LET rowHeight == h \div Len(paneIds)
             isLast == i = Len(paneIds) - 1
             thisRowHeight == IF isLast THEN h - (currentY - y) ELSE rowHeight
         IN  <<formatNode(w, thisRowHeight, x, currentY, paneIds[i + 1])>> \o
                 ColumnRows(w, h, x, y, paneIds, i + 1, currentY + thisRowHeight)

\* buildColumn (utils/layout.ts, lines 98-119)
buildColumn(w, h, x, y, paneIds) ==
    IF Len(paneIds) = 0 THEN NoCell
    ELSE IF Len(paneIds) = 1 THEN formatNode(w, h, x, y, paneIds[1])
    ELSE SplitCell("TOPBOTTOM", w, h, x, y,
                   ColumnRows(w, h, x, y, paneIds, 0, y))

\* Array.prototype.join(','): the texts of the cells, commas between them.
RECURSIVE JoinCells(_, _)
RECURSIVE dumpCell(_)
JoinCells(cells, i) ==
    IF i > Len(cells) THEN <<>>
    ELSE (IF i > 1 THEN <<44>> ELSE <<>>) \o dumpCell(cells[i])
            \o JoinCells(cells, i + 1)

\* The template literals of lines 89, 93, 118 and 122.
dumpCell(cell) ==
    LET base == Decimal(cell.sx) \o <<120>> \o Decimal(cell.sy) \o <<44>>
                    \o Decimal(cell.xoff) \o <<44>> \o Decimal(cell.yoff)
    IN  CASE cell.type = "NONE" -> <<>>
          [] cell.type = "WINDOWPANE" -> base \o <<44>> \o PaneIdText(cell.id)
          [] cell.type = "LEFTRIGHT" ->
                base \o <<123>> \o JoinCells(cell.children, 1) \o <<125>>
          [] cell.type = "TOPBOTTOM" ->
                base \o <<91>> \o JoinCells(cell.children, 1) \o <<93>>

\* The loop of withChecksum (utils/layout.ts, lines 127-131) over the
\* characters at positions from .. to, entered with csum; the range is run
\* as its first half followed by its second half, the sum of the first
\* half being computed (it is never negative) before the second half is
\* entered, which keeps the nesting of the evaluation shallow.  csum stays
\* far below 2^31, where >> and << are a division and a multiplication.
RECURSIVE RunningSum(_, _, _, _)
RunningSum(text, from, to, csum) ==
    IF from > to THEN csum
    ELSE IF from = to
    THEN (csum \div 2) + ((csum % 2) * 32768) + text[from]
    ELSE LET middle == (from + to) \div 2
             firstHalf == RunningSum(text, from, middle, csum)
         IN  IF firstHalf >= 0
             THEN RunningSum(text, middle + 1, to, firstHalf)
             ELSE 0

\* withChecksum (utils/layout.ts, lines 125-134)
withChecksum(text) ==
    LET csum == RunningSum(text, 1, Len(text), 0) % 65536
    IN  toString16(csum) \o <<44>> \o text

\* The loop of layoutChecksum (layout.ts, lines 126-129), run the same way.
RECURSIVE MaskedSum(_, _, _, _)
MaskedSum(text, from, to, csum) ==
    IF from > to THEN csum
    ELSE IF from = to
    THEN ((csum \div 2) + ((csum % 2) * 32768) + text[from]) % 65536
    ELSE LET middle == (from + to) \div 2
             firstHalf == MaskedSum(text, from, middle, csum)
         IN  IF firstHalf >= 0
             THEN MaskedSum(text, middle + 1, to, firstHalf)
             ELSE 0

\* layoutChecksum (layout.ts, lines 124-131)
layoutChecksum(text) == MaskedSum(text, 1, Len(text), 0)

\* mainPanePercentForColumns (layout.ts, lines 118-122)
mainPanePercentForColumns(numColumns) ==
    IF numColumns <= 1 THEN 60
    ELSE IF numColumns = 2 THEN 45
    ELSE 30

\* The root cell generateLayoutString builds (utils/layout.ts, lines
\* 10-96); no cell when the window has no size.
LayoutCells(w, h, mainPaneSizePercent, paneIds, mainPaneId_, maxPerColumn) ==
    LET cleanPaneIds == SelectSeq(paneIds, LAMBDA id : id # mainPaneId_)
        mainPaneWidth == (w * mainPaneSizePercent) \div 100
        subagentAreaWidth == w - mainPaneWidth
        numSubagents == Len(cleanPaneIds)
        limit == IF maxPerColumn > 0 THEN maxPerColumn ELSE numSubagents
        numCols == MathCeil(numSubagents, limit)
        colWidth == subagentAreaWidth \div numCols
        slices == SliceColumns(cleanPaneIds, limit, numCols, 0, 0)
        currentX(c) == mainPaneWidth + (c * colWidth)
        thisColWidth(c) ==
            IF c = numCols - 1 THEN w - currentX(c) ELSE colWidth
        columns == [c \in 1..numCols |->
                       buildColumn(thisColWidth(c - 1), h, currentX(c - 1), 0,
                                   slices[c])]
        mainNode == formatNode(mainPaneWidth, h, 0, 0, mainPaneId_)
        subagentAreaNode ==
            IF Len(columns) = 1 THEN columns[1]
            ELSE SplitCell("LEFTRIGHT", subagentAreaWidth, h, mainPaneWidth, 0,
                           columns)
    IN  IF w <= 0 \/ h <= 0 THEN <<>>
        ELSE IF numSubagents = 0
        THEN <<formatNode(w, h, 0, 0, mainPaneId_)>>
        ELSE <<SplitCell("LEFTRIGHT", w, h, 0, 0,
                         <<mainNode, subagentAreaNode>>)>>

\* The string generateLayoutString returns for a root cell: empty for none.
LayoutText(cells) ==
    IF cells = <<>> THEN <<>> ELSE withChecksum(dumpCell(cells[1]))

\* The agents of a call: ids 1 .. agentCount.
AgentIds == [i \in 1..agentCount |-> i]

DistributeRuns ==
    /\ ~distribution.ran
    /\ distribution' = distributeAgentsRoundRobin(agentCount, maxAgentsPerColumn)
    /\ UNCHANGED <<agentCount, maxAgentsPerColumn, grouped, generated>>
    /\ UNCHANGED <<windowWidth, windowHeight, rendered>>
    /\ UNCHANGED <<vars, mvars, rvars, ovars>>

GroupRuns ==
    /\ ~grouped.ran
    /\ grouped' = groupAgentsByColumn(AgentIds, maxAgentsPerColumn)
    /\ UNCHANGED <<agentCount, maxAgentsPerColumn, distribution, generated>>
    /\ UNCHANGED <<windowWidth, windowHeight, rendered>>
    /\ UNCHANGED <<vars, mvars, rvars, ovars>>

\* The manager's call (recalculateLayout, lines 173-180): the pane of the
\* main window is pane 0, the main pane's share is the configured one.
GenerateRuns ==
    /\ ~generated.ran
    /\ generated' = generateLayoutString(AgentIds, 0, maxAgentsPerColumn)
    /\ LET cells == LayoutCells(windowWidth, windowHeight, main_pane_size,
                                AgentIds, 0, maxAgentsPerColumn)
       IN  rendered' = [ran |-> TRUE, cells |-> cells,
                        text |-> LayoutText(cells)]
    /\ UNCHANGED <<agentCount, maxAgentsPerColumn, distribution, grouped>>
    /\ UNCHANGED <<windowWidth, windowHeight>>
    /\ UNCHANGED <<vars, mvars, rvars, ovars>>

\* The inputs of the layout functions, nothing computed yet.
LayoutInputs ==
    /\ agentCount \in -1..MaxAgents
    /\ maxAgentsPerColumn \in -1..MaxPerColumn
    /\ distribution = NotRun
    /\ grouped = NotRun
    /\ generated = NotRun
    /\ windowWidth \in WindowWidths
    /\ windowHeight \in WindowHeights
    /\ rendered = [ran |-> FALSE, cells |-> <<>>, text |-> <<>>]

\* No layout call.
LayoutOff ==
    /\ LayoutInputs
    /\ agentCount = 0
    /\ maxAgentsPerColumn = 1
    /\ windowWidth = 0
    /\ windowHeight = 0

\* The manager as its constructor leaves it (lines 41-64), inside tmux.
ManagerConstructed ==
    /\ sessions = <<>>
    /\ pollInterval = FALSE
    /\ pollDue = 0
    /\ enabled \in BOOLEAN
    /\ shuttingDown = FALSE
    /\ mainPaneId = 0
    /\ readyPromise = IF enabled THEN "pending" ELSE "none"
    /\ creates = <<>>
    /\ polls = <<>>
    /\ layouts = <<>>
    /\ cleanups = <<>>
    /\ exited = FALSE
    /\ tmuxSessionKilled = FALSE
    /\ timers = 0

\* No manager: the queue runs on its own.
ManagerOff ==
    /\ ManagerConstructed
    /\ ~enabled

Callbacks == {0} \cup SessionIds

\* The queue as its constructor leaves it (lines 158-168).
QueueConstructed ==
    /\ queue = <<>>
    /\ isProcessing = FALSE
    /\ hasItemInFlight = FALSE
    /\ isShutdown = FALSE
    /\ pendingPromises = [x \in {} |-> 0]
    /\ promises = [p \in PromiseIds |-> UnusedPromise]
    /\ loops = <<>>
    /\ lastCall = NoCall
    /\ updates = <<>>
    /\ lastCompleted = <<>>

Init == QueueConstructed /\ ManagerOff /\ ReaperOff /\ OneShotOff /\ LayoutOff

Next ==
    \/ \E s \in SessionIds, cb \in Callbacks :
            Enqueue(s, cb)
    \/ Shutdown
    \/ \E i \in DOMAIN loops, outcome \in SpawnOutcomes : SpawnSettles(i, outcome)
    \/ \E i \in DOMAIN loops : BackoffFires(i)
    \/ \E i \in DOMAIN loops, cb \in Callbacks :
            ItemReturns(i, cb)
    \/ \E i \in DOMAIN loops, cb \in Callbacks :
            DelayFires(i, cb)
    \/ Tick

Spec == Init /\ [][Next]_vars

ManagerInit ==
    QueueConstructed /\ ManagerConstructed /\ ReaperOff /\ OneShotOff /\ LayoutOff

ManagerNext ==
    \/ \E pane \in {0, MainPane} : InitMainPaneIdSettles(pane)
    \/ \E event \in Events : OnSessionCreated(event)
    \/ \E i \in DOMAIN creates : ReadyContinues(i)
    \/ \E i \in DOMAIN creates :
            \E outcome \in SpawnPaneOutcomes(creates[i].event.id) :
                SpawnPaneSettles(i, outcome)
    \/ \E i \in DOMAIN layouts : LayoutRuns(i)
    \/ PollTimerFires
    \/ \E i \in DOMAIN polls, outcome \in StatusOutcomes : StatusSettles(i, outcome)
    \/ \E i \in DOMAIN polls : CloseSettles(i)
    \/ \E i \in DOMAIN polls, serverAlive \in BOOLEAN : HealthSettles(i, serverAlive)
    \/ \E reason \in Signals \cup {"beforeExit"} : Signal(reason)
    \/ \E i \in DOMAIN cleanups : CleanupSettles(i)
    \/ ManagerTick

ManagerSpec == ManagerInit /\ [][ManagerNext]_mvars

ReaperInit ==
    QueueConstructed /\ ManagerOff /\ ReaperConstructed /\ OneShotOff /\ LayoutOff

ReaperNext ==
    \/ ReaperStart
    \/ ScanTimerFires
    \/ ReaperShutdown
    \/ \E payload \in Payloads : FetchSettles(payload)
    \/ ExitSettles
    \/ \E pid \in Pids : ProcessExits(pid)
    \/ ReaperTick

ReaperSpec == ReaperInit /\ [][ReaperNext]_rvars

\* reapAll makes its own reaper (line 77) and uses none of its fields.
OneShotInit ==
    /\ QueueConstructed
    /\ ManagerOff
    /\ ReaperFields
    /\ targetUrl = [pid \in Pids |-> NoUrl]
    /\ processes \in [Pids -> {"mine", "other", "unknown", "gone"}]
    /\ autoSelfDestruct = FALSE
    /\ OneShotIdle
    /\ LayoutOff

OneShotNext ==
    \/ ReapAllStarts
    \/ \E payload \in Payloads : ProbeSettles(payload)
    \/ RetryDelayFires
    \/ \E exitedInTime \in BOOLEAN : ServerExitSettles(exitedInTime)
    \/ ServerKilledSettles
    \/ \E payload \in Payloads : ReapAllStatusSettles(payload)

OneShotSpec == OneShotInit /\ [][OneShotNext]_ovars

LayoutInit ==
    QueueConstructed /\ ManagerOff /\ ReaperOff /\ OneShotOff /\ LayoutInputs

LayoutNext ==
    \/ DistributeRuns
    \/ GroupRuns
    \/ GenerateRuns

LayoutSpec == LayoutInit /\ [][LayoutNext]_lvars


(***************************************************************************)
(* What the claims speak of.                                               *)
(***************************************************************************)
Allocated(p) == promises[p].state # "unused"
Resolved(p) == promises[p].state = "fulfilled"
Calls(p) == Len(promises[p].attempts)
\* An earlier enqueue of sessionId s has not resolved yet.
UnresolvedFor(s) ==
    {p \in PromiseIds : promises[p].state = "pending" /\ promises[p].sessionId = s}
\* The activations that hold an item: it is in flight.
InFlight == {i \in DOMAIN loops : loops[i].item # NoItem}
\* The items with sessionId s that are queued or in flight.
ItemCount(s) ==
    Cardinality({i \in DOMAIN queue : queue[i].sessionId = s})
        + Cardinality({i \in InFlight : loops[i].item.sessionId = s})
\* The work-function invocations that have not settled.
Outstanding ==
    {<<p, n>> \in PromiseIds \X (1..(maxRetries + 2)) :
        n <= Calls(p) /\ promises[p].attempts[n].outcome = "running"}
EnqueueStep(s) == \E cb \in Callbacks : Enqueue(s, cb)
\* The item has waited in the queue for longer than staleThresholdMs.
IsStaleAt(item) == now - item.enqueuedAt > staleThresholdMs
HeapUnchanged ==
    UNCHANGED <<queue, pendingPromises, promises, loops, hasItemInFlight,
                isProcessing>>

(***************************************************************************)
(* C1 as stated: an enqueue for a sessionId whose earlier enqueue has not  *)
(* resolved returns the identical promise, adds no item and starts no      *)
(* work.  It fails once the queue is shut down with that item in flight.   *)
(***************************************************************************)
C1_AnyPendingCoalesces ==
    [][\A s \in SessionIds :
          (EnqueueStep(s) /\ UnresolvedFor(s) # {})
              => /\ lastCall'.promise \in UnresolvedFor(s)
                 /\ HeapUnchanged]_vars

(***************************************************************************)
(* C1, amended: on a queue that is not shut down, an enqueue for a         *)
(* sessionId whose earlier enqueue has not resolved returns the identical  *)
(* promise, adds no queue item and starts no work-function execution.      *)
(***************************************************************************)
C1_Coalesces ==
    [][\A s \in SessionIds :
          (EnqueueStep(s) /\ ~isShutdown /\ UnresolvedFor(s) # {})
              => /\ lastCall'.promise \in UnresolvedFor(s)
                 /\ HeapUnchanged]_vars

\* A duplicate enqueue was coalesced onto an item whose work is running.
C1_Witness ==
    /\ lastCall.how = "coalesced"
    /\ lastCall.promise # 0
    /\ promises[lastCall.promise].state = "pending"
    /\ Calls(lastCall.promise) = 1

(***************************************************************************)
(* C2: at most one item per sessionId is queued or in flight, the entry of *)
(* pendingPromises exists exactly while that item does and its promise is  *)
(* unresolved; and an enqueue on a queue not shut down creates a new item  *)
(* exactly when no item with that sessionId is queued or in flight.        *)
(***************************************************************************)
C2_OneItemPerSession ==
    /\ [](\A s \in SessionIds :
            /\ ItemCount(s) <= 1
            /\ MapHas(pendingPromises, s) <=> ItemCount(s) = 1
            /\ Cardinality(UnresolvedFor(s)) = ItemCount(s)
            /\ MapHas(pendingPromises, s)
                  => pendingPromises[s] \in UnresolvedFor(s))
    /\ [][\A s \in SessionIds :
            (EnqueueStep(s) /\ ~isShutdown)
                => (ItemCount(s) = 0
                      <=> /\ lastCall'.how = "enqueued"
                          /\ ~Allocated(lastCall'.promise)
                          /\ promises'[lastCall'.promise].state = "pending"
                          /\ promises'[lastCall'.promise].sessionId = s
                          /\ pendingPromises'[s] = lastCall'.promise)]_vars

\* A sessionId is enqueued afresh after its earlier item has resolved on
\* exhausted retries.
C2_Witness ==
    /\ lastCall.how = "enqueued"
    /\ promises[lastCall.promise].state = "pending"
    /\ \E p \in PromiseIds :
          /\ p < lastCall.promise
          /\ promises[p].sessionId = lastCall.sessionId
          /\ Resolved(p)
          /\ promises[p].resolvedBy = "result"
          /\ Calls(p) = maxRetries + 1 /\ ~promises[p].value.success

(***************************************************************************)
(* C3: at most one work-function invocation is outstanding at any time.    *)
(***************************************************************************)
C3_OneInvocation == Cardinality(Outstanding) <= 1

\* An invocation is outstanding while another item waits and the queue has
\* been shut down under it.
C3_Witness ==
    /\ Cardinality(Outstanding) = 1
    /\ \E p \in PromiseIds : Resolved(p) /\ promises[p].resolvedBy = "shutdown"
    /\ \E p \in PromiseIds : Calls(p) = 2 /\ promises[p].state = "pending"

AllFailed(p) ==
    \A n \in 1..Calls(p) :
        /\ promises[p].attempts[n].outcome = "settled"
        /\ ~promises[p].attempts[n].result.success
C5_RetriesExhausted ==
    \A p \in PromiseIds :
        /\ Calls(p) <= maxRetries + 1
        /\ \A n \in 1..Calls(p) : promises[p].attempts[n].retryCount = n - 1
        /\ (Resolved(p) /\ promises[p].resolvedBy = "result" /\ ~isShutdown
                /\ AllFailed(p))
              => /\ Calls(p) = maxRetries + 1
                 /\ ~promises[p].value.success

\* An item has resolved with failure after all its attempts failed, with no
\* shutdown.
C5_Witness ==
    /\ ~isShutdown
    /\ \E p \in PromiseIds :
          /\ Resolved(p) /\ promises[p].resolvedBy = "result"
          /\ AllFailed(p)
          /\ Calls(p) = maxRetries + 1

(***************************************************************************)
(* C6: an item whose attempt k+1 succeeds after k failures resolves with   *)
(* that success result, after exactly those k+1 invocations, and the wait  *)
(* before attempt i+1 is BASE_BACKOFF_MS * 2^(i-1): 250 ms, then 500 ms.   *)
(***************************************************************************)
Succeeded(p) ==
    /\ Calls(p) > 0
    /\ promises[p].attempts[Calls(p)].outcome = "settled"
    /\ promises[p].attempts[Calls(p)].result.success
C6_SuccessAfterRetries ==
    \A p \in PromiseIds :
        /\ \A n \in 1..Calls(p) :
              (n < Calls(p)) => ~promises[p].attempts[n].result.success
        /\ \A i \in 1..Len(promises[p].delays) :
              /\ promises[p].delays[i] = BASE_BACKOFF_MS * 2 ^ (i - 1)
              /\ i = 1 => promises[p].delays[i] = 250
              /\ i = 2 => promises[p].delays[i] = 500
        /\ Len(promises[p].delays) \in {Calls(p) - 1, Calls(p)}
        /\ Succeeded(p)
              => /\ Len(promises[p].delays) = Calls(p) - 1
                 /\ Resolved(p)
                      => /\ promises[p].resolvedBy = "result"
                         /\ promises[p].value = promises[p].attempts[Calls(p)].result

\* An item has resolved with success on its third attempt.
C6_Witness ==
    \E p \in PromiseIds :
        /\ Succeeded(p) /\ Resolved(p) /\ Calls(p) = 3
        /\ promises[p].value.success
        /\ promises[p].delays = <<250, 500>>

(***************************************************************************)
(* C7: a shutdown() resolves every queued item with failure during the     *)
(* call, and the work function is never invoked for such an item; an item  *)
(* in flight is left as it is, its attempt still running, and it resolves  *)
(* later with the result of its latest attempt.                            *)
(***************************************************************************)
C7_Shutdown ==
    /\ [](\A p \in PromiseIds :
            /\ promises[p].resolvedBy = "shutdown"
                  => Calls(p) = 0 /\ Resolved(p) /\ ~promises[p].value.success
            /\ (Resolved(p) /\ promises[p].resolvedBy = "result")
                  => /\ Calls(p) > 0
                     /\ promises[p].value = promises[p].attempts[Calls(p)].result)
    /\ [][(Shutdown /\ ~isShutdown)
            => /\ \A i \in DOMAIN queue :
                    /\ promises'[queue[i].resolve].state = "fulfilled"
                    /\ promises'[queue[i].resolve].value = Fail
                    /\ promises'[queue[i].resolve].attempts = <<>>
               /\ queue' = <<>>
               /\ loops' = loops
               /\ hasItemInFlight' = hasItemInFlight
               /\ \A i \in InFlight :
                    promises'[loops[i].item.resolve] = promises[loops[i].item.resolve]]_vars

\* After a shutdown with one item in flight and every other session queued:
\* the queued have resolved with failure, the one in flight with the success
\* of the attempt that was running.
C7_Witness ==
    /\ isShutdown
    /\ Cardinality({p \in PromiseIds : promises[p].resolvedBy = "shutdown"})
          = NumSessions - 1
    /\ \E p \in PromiseIds :
          /\ Resolved(p) /\ promises[p].resolvedBy = "result"
          /\ promises[p].value.success

(***************************************************************************)
(* C8: after shutdown() every enqueue returns a promise resolved with      *)
(* failure, invokes nothing and leaves the queue, the pending map and the  *)
(* pending count as they were.                                             *)
(***************************************************************************)
C8_RejectedAfterShutdown ==
    [][\A s \in SessionIds :
          (EnqueueStep(s) /\ isShutdown)
              => /\ lastCall'.promise = 0
                 /\ lastCall'.value = Fail
                 /\ HeapUnchanged
                 /\ getPendingCount(World)' = getPendingCount(World)]_vars

\* An enqueue was refused for a sessionId whose item is still in flight.
C8_Witness ==
    /\ isShutdown
    /\ lastCall.how = "rejected"
    /\ UnresolvedFor(lastCall.sessionId) # {}

(***************************************************************************)
(* C9: an item that has waited longer than staleThresholdMs when the loop  *)
(* takes it from the queue resolves with failure in that step without any  *)
(* invocation of the work function, and the loop goes on with the items    *)
(* behind it: each is skipped as stale too, or started, or still queued    *)
(* behind the one that was started.                                        *)
(***************************************************************************)
Taken(i) == \A j \in DOMAIN queue' : queue'[j].resolve # queue[i].resolve
LoopStep ==
    \/ \E s \in SessionIds : EnqueueStep(s)
    \/ \E i \in DOMAIN loops, cb \in Callbacks : DelayFires(i, cb)
C9_StaleSkipped ==
    /\ [](\A p \in PromiseIds :
            promises[p].resolvedBy = "stale"
                => Calls(p) = 0 /\ Resolved(p) /\ ~promises[p].value.success)
    /\ [][LoopStep =>
            \A i \in DOMAIN queue :
                (Taken(i) /\ IsStaleAt(queue[i]))
                    => /\ promises'[queue[i].resolve].resolvedBy = "stale"
                       /\ \A k \in DOMAIN queue :
                            k > i =>
                              \/ promises'[queue[k].resolve].resolvedBy = "stale"
                              \/ Cardinality(Outstanding') = 1]_vars

\* A stale item was skipped and the item behind it was started.
C9_Witness ==
    \E p, r \in PromiseIds :
        /\ p < r
        /\ promises[p].resolvedBy = "stale"
        /\ Calls(r) = 1 /\ promises[r].attempts[1].outcome = "running"
        /\ lastCall = NoCall
        /\ \A x \in PromiseIds : x # r => promises[x].state # "pending"

(***************************************************************************)
(* C10: a promise of enqueue is only ever resolved, with a SpawnResult; a  *)
(* throw of the work function leaves the queue exactly where a result with *)
(* success = false leaves it: a failed attempt, retried the same way.      *)
(***************************************************************************)
ThrowOutcome == [kind |-> "throw", result |-> Exception]
FailOutcome == [kind |-> "return", result |-> Fail]
C10_NeverRejects ==
    /\ [](\A p \in PromiseIds :
            /\ promises[p].state \in {"unused", "pending", "fulfilled"}
            /\ promises[p].value \in Results
            /\ \A n \in 1..Calls(p) : promises[p].attempts[n].result \in Results)
    /\ [][\A i \in DOMAIN loops :
            SpawnSettles(i, ThrowOutcome)
                => LET r == AfterSpawn(World, loops[i], FailOutcome)
                   IN  /\ promises' = r.w.promises
                       /\ loops' = ReplaceLoop(loops, i, r.act)
                       /\ UNCHANGED <<queue, pendingPromises, hasItemInFlight,
                                      isProcessing, isShutdown>>]_vars

\* The work function has thrown on the first attempt of an item and the
\* queue waits to retry it.
C10_Witness ==
    /\ lastCall.op = "spawnFn" /\ lastCall.how = "throw"
    /\ Calls(lastCall.promise) = 1
    /\ \E i \in DOMAIN loops :
          /\ loops[i].pc = "awaitBackoff"
          /\ loops[i].item.resolve = lastCall.promise
          /\ loops[i].lastResult = Fail


(***************************************************************************)
(* C11, as claimed: every onQueueUpdate call carries getPendingCount(),    *)
(* the queue length plus one if an item is in flight.                      *)
(***************************************************************************)
C11_CarriesPendingCount ==
    \A i \in DOMAIN updates : updates[i].count = updates[i].pendingCount

(***************************************************************************)
(* C11, amended: every onQueueUpdate call carries the length of the queue  *)
(* alone, the items not yet started: getPendingCount() less one while an   *)
(* item is in flight (0 when the only pending item has just been started,  *)
(* as the test of the callback expects).                                   *)
(***************************************************************************)
C11_CarriesQueueLength ==
    \A i \in DOMAIN updates :
        /\ updates[i].count = updates[i].queueLength
        /\ updates[i].count =
              updates[i].pendingCount - (IF updates[i].hasItemInFlight THEN 1 ELSE 0)

\* An item is taken from the queue with another still behind it: the call
\* carries 1 while two items are pending.
C11_Witness ==
    \E i \in DOMAIN updates :
        /\ updates[i].hasItemInFlight
        /\ updates[i].count = 1
        /\ updates[i].pendingCount = 2


\* The step invokes the work function for promise p for the first time.
FirstStart(p) == Calls(p) = 0 /\ Len(promises'[p].attempts) = 1
\* The step completes the executed item of promise p (line 311).
Completes(p) ==
    promises[p].state = "pending" /\ promises'[p].resolvedBy = "result"
\* spawnDelayMs has passed since the latest completion, if there was one.
DelayElapsed ==
    lastCompleted # <<>> => now - lastCompleted[1] >= spawnDelayMs

(***************************************************************************)
(* C12, as claimed: the first invocation of the work function for an item  *)
(* comes no sooner than spawnDelayMs after the completion of the item      *)
(* executed before it, whenever that item was enqueued.                    *)
(***************************************************************************)
C12_AlwaysDelays ==
    [][\A p \in PromiseIds : FirstStart(p) => DelayElapsed]_vars

(***************************************************************************)
(* C12, amended: when an item completes with another waiting in the queue  *)
(* (and no shutdown), the loop starts nothing in that step and sets a      *)
(* timer of spawnDelayMs; an item the loop goes on to after a completion   *)
(* is first invoked no sooner than spawnDelayMs after it.  Only an enqueue *)
(* call that finds the loop not running starts an item without that wait.  *)
(***************************************************************************)
C12_DelaysWhenQueued ==
    [][/\ \A p \in PromiseIds :
            FirstStart(p) =>
                \/ DelayElapsed
                \/ lastCall'.op = "enqueue" /\ ~isProcessing
       /\ \A p \in PromiseIds :
            Completes(p) /\ queue # <<>> /\ ~isShutdown =>
                /\ \A r \in PromiseIds : ~FirstStart(r)
                /\ \E i \in DOMAIN loops' :
                      /\ loops'[i].pc = "awaitDelay"
                      /\ loops'[i].due = now + spawnDelayMs]_vars

\* An item that was queued when the one before it completed is in its first
\* invocation, and spawnDelayMs has passed since that completion.
C12_Witness ==
    /\ lastCompleted # <<>>
    /\ now - lastCompleted[1] >= spawnDelayMs
    /\ lastCall = NoCall
    /\ \E i \in InFlight :
          /\ loops[i].pc = "awaitSpawn"
          /\ loops[i].retryCount = 0
          /\ loops[i].item.enqueuedAt < lastCompleted[1]

\* The ids the step leaves for activation i of pollSessions to close.
MarkedBy(i) ==
    IF Len(polls') = Len(polls)
    THEN {polls'[i].sessionsToClose[k] : k \in DOMAIN polls'[i].sessionsToClose}
    ELSE {}
\* Session s, as the poll that got `outcome` leaves it, is due to be closed.
DueAfter(s, outcome) ==
    LET tracked == SessionsGet(sessions', s)
    IN  \/ /\ outcome.hasData
           /\ s \in DOMAIN outcome.data
           /\ outcome.data[s] = "idle"
        \/ /\ tracked.missingSince # <<>>
           /\ now - tracked.missingSince[1] >= SESSION_MISSING_GRACE_MS
        \/ now - tracked.createdAt > SESSION_TIMEOUT_MS
\* The step ends tracking of session s out of a poll: closeSession goes on
\* after closing the pane of s, the first id its poll has left to close.
ClosedByPoll(s) ==
    \E i \in DOMAIN polls :
        /\ CloseSettles(i)
        /\ Head(polls[i].sessionsToClose) = s
        /\ polls[i].closing = SessionsGet(sessions, s).paneId

(***************************************************************************)
(* C13: a poll whose status call returns marks a tracked session for       *)
(* closing exactly if its status is idle, or missingSince is set and at    *)
(* least the grace period back, or createdAt is more than the timeout      *)
(* back; the sessions stay tracked in that step, and tracking of a session *)
(* ends only when the close of its pane, asked for by the poll that marked *)
(* it, has settled (or when cleanup clears the Map at shutdown).  So an    *)
(* absent session is not closed before the grace period has passed since   *)
(* it was first found absent, and the first poll from then on closes it.   *)
(***************************************************************************)
C13_ClosedIffDue ==
    [][/\ \A i \in DOMAIN polls, outcome \in StatusOutcomes :
            /\ polls' # polls
            /\ outcome.kind = "return"
            /\ StatusSettles(i, outcome)
            => /\ TrackedIds(sessions') = TrackedIds(sessions)
               /\ \A s \in TrackedIds(sessions) :
                     s \in MarkedBy(i) <=> DueAfter(s, outcome)
       /\ \A s \in TrackedIds(sessions) \ TrackedIds(sessions') :
            \/ ClosedByPoll(s)
            \/ \E i \in DOMAIN cleanups : CleanupSettles(i)]_mvars

\* A poll is closing a session that was absent for the grace period, and
\* has left alone another it found absent for the first time.
C13_Witness ==
    \E i \in DOMAIN polls, s, other \in TrackedIds(sessions) :
        /\ polls[i].pc = "awaitClose"
        /\ polls[i].sessionsToClose = <<s>>
        /\ SessionsGet(sessions, s).missingSince # <<>>
        /\ now - SessionsGet(sessions, s).missingSince[1] >= SESSION_MISSING_GRACE_MS
        /\ now - SessionsGet(sessions, s).createdAt <= SESSION_TIMEOUT_MS
        /\ other # s
        /\ SessionsGet(sessions, other).missingSince = <<now>>

(***************************************************************************)
(* C14, as claimed: poll cycles never overlap.  At most one activation of  *)
(* pollSessions is under way (awaiting its status call, a close it asked   *)
(* for, or its health probe) at any time, however long its calls take.     *)
(***************************************************************************)
C14_PollsNeverOverlap == Len(polls) <= 1

(***************************************************************************)
(* C15: a poll whose status call returns a session map leaves, for every   *)
(* tracked session, missingSince undefined and lastSeenAt at the time of   *)
(* the poll if the map has the session; if not, it sets missingSince to    *)
(* the time of the poll when it was undefined and leaves it as it was when *)
(* it was set, and leaves lastSeenAt alone.  So missingSince is the time   *)
(* of the first poll of the current run of polls that found the session    *)
(* absent.                                                                 *)
(***************************************************************************)
C15_MissingSinceFirstAbsence ==
    [][\A i \in DOMAIN polls, outcome \in StatusOutcomes :
          /\ polls' # polls
          /\ outcome.kind = "return" /\ outcome.hasData
          /\ StatusSettles(i, outcome)
          => \A s \in TrackedIds(sessions) :
                LET before == SessionsGet(sessions, s)
                    after == SessionsGet(sessions', s)
                IN  IF s \in DOMAIN outcome.data
                    THEN /\ after.missingSince = <<>>
                         /\ after.lastSeenAt = now
                    ELSE /\ after.missingSince =
                                IF before.missingSince = <<>>
                                THEN <<now>> ELSE before.missingSince
                         /\ after.lastSeenAt = before.lastSeenAt]_mvars

\* A poll found one session absent again, one interval after the poll that
\* first found it absent, and another session present: the first keeps the
\* time of the earlier poll, the second has none and was seen now.
C15_Witness ==
    \E i \in DOMAIN polls, s, other \in TrackedIds(sessions) :
        /\ polls[i].pc = "awaitClose"
        /\ Head(polls[i].sessionsToClose) = s
        /\ SessionsGet(sessions, s).missingSince = <<now - PollTickMs>>
        /\ SessionsGet(sessions, s).lastSeenAt < now
        /\ other # s
        /\ SessionsGet(sessions, other).missingSince = <<>>
        /\ SessionsGet(sessions, other).lastSeenAt = now
        /\ SessionsGet(sessions, other).createdAt < now

\* The activations of onSessionCreated that await spawnTmuxPane.
AwaitsSpawn(acts) == {k \in DOMAIN acts : acts[k].pc = "awaitSpawn"}
\* The step starts one more spawnTmuxPane call.
SpawnStarted ==
    Cardinality(AwaitsSpawn(creates')) = Cardinality(AwaitsSpawn(creates)) + 1
\* The event is a session.created with id and parentID for a session that
\* is not tracked at the time the event is looked at.
CreatesUntracked(event) ==
    /\ enabled
    /\ event.type = "session.created"
    /\ event.id # 0
    /\ event.parentID # 0
    /\ event.id \notin TrackedIds(sessions)
\* The outcome of spawnTmuxPane is a return with success and a pane id.
ReturnedPane(outcome) ==
    /\ outcome.kind = "return"
    /\ outcome.result.success
    /\ outcome.result.paneId # 0

(***************************************************************************)
(* C16: a session id comes to be tracked only in the step in which the     *)
(* spawnTmuxPane call of a session.created event with id and parentID for  *)
(* that id returns success with a pane id; such a call is started exactly  *)
(* for an event of that kind whose id is not tracked when the event is     *)
(* looked at.  Looking at an event changes neither the tracked sessions    *)
(* nor the poll timer, and neither does a spawnTmuxPane call that fails,   *)
(* throws or returns no pane id.                                           *)
(***************************************************************************)
C16_TrackedOnlyOnSpawnedPane ==
    [][/\ \A s \in TrackedIds(sessions') \ TrackedIds(sessions) :
            \E i \in DOMAIN creates :
                \E outcome \in SpawnPaneOutcomes(s) :
                    /\ SpawnPaneSettles(i, outcome)
                    /\ ReturnedPane(outcome)
                    /\ creates[i].event.type = "session.created"
                    /\ creates[i].event.id = s
                    /\ creates[i].event.parentID # 0
       /\ \A event \in Events :
            OnSessionCreated(event) /\ readyPromise # "pending" =>
                /\ UNCHANGED <<sessions, pollInterval, pollDue>>
                /\ SpawnStarted <=> CreatesUntracked(event)
       /\ \A i \in DOMAIN creates :
            ReadyContinues(i) =>
                /\ UNCHANGED <<sessions, pollInterval, pollDue>>
                /\ SpawnStarted <=> CreatesUntracked(creates[i].event)
       /\ \A i \in DOMAIN creates :
            \A outcome \in SpawnPaneOutcomes(creates[i].event.id) :
                SpawnPaneSettles(i, outcome) /\ ~ReturnedPane(outcome) =>
                    UNCHANGED <<sessions, pollInterval, pollDue>>]_mvars

\* A session has just come to be tracked, by the side of one tracked
\* before, and the poll timer runs.
C16_Witness ==
    \E s, other \in TrackedIds(sessions) :
        /\ s # other
        /\ SessionsGet(sessions, s).createdAt = now
        /\ SessionsGet(sessions, s).lastSeenAt = now
        /\ SessionsGet(sessions, s).missingSince = <<>>
        /\ SessionsGet(sessions, other).createdAt < now
        /\ pollInterval
        /\ creates = <<>>

\* The panes of the sessions tracked before the step.
TrackedPanes == {sessions[k].paneId : k \in DOMAIN sessions}
\* After the step a close has been asked for pane, by a cleanup under way.
CloseIssued(pane) ==
    \E k \in DOMAIN cleanups' : pane \in cleanups'[k].closePromises
\* The step leaves tracking, the closes asked for and the poll timer alone.
NothingClosed ==
    UNCHANGED <<sessions, cleanups, pollInterval, pollDue, shuttingDown, exited,
                tmuxSessionKilled>>

C18_NoDataIsNoOp ==
    [][\A i \in DOMAIN polls, outcome \in StatusOutcomes :
          /\ polls' # polls
          /\ outcome.kind = "return" /\ ~outcome.hasData
          /\ StatusSettles(i, outcome)
          => /\ sessions' = sessions
             /\ MarkedBy(i) = {}]_mvars

\* The debounce window of layout recalculation (FEATURE_SPEC.md).
layoutDebounceMs == 100

(***************************************************************************)
(* C19, as claimed: layout recalculation is debounced.  The triggers of    *)
(* one debounce window lead to one recomputation: no two recomputations    *)
(* under way were triggered less than the window apart.                    *)
(***************************************************************************)
C19_OneRecomputationPerWindow ==
    \A i, j \in DOMAIN layouts :
        i < j => layouts[j].triggeredAt - layouts[i].triggeredAt >= layoutDebounceMs

ReapStarted(pid) ==
    \E i \in DOMAIN kills : kills[i] = [pid |-> pid, signal |-> "SIGTERM"]
C22_ReapedOnlyWhenBothHold ==
    \A pid \in Pids :
        ReapStarted(pid) =>
            /\ MapHas(candidates, pid)
            /\ candidates[pid].count >= minZombieChecks
            /\ now - candidates[pid].firstDetectedAt >= gracePeriodMs
C22_Witness ==
    \E pid \in Pids :
        /\ ReapStarted(pid)
        /\ \E other \in Pids :
              /\ MapHas(candidates, other)
              /\ ~ReapStarted(other)
              /\ \/ candidates[other].count < minZombieChecks
                 \/ now - candidates[other].firstDetectedAt < gracePeriodMs


(***************************************************************************)
(* C23: a status query that fails or yields an unparseable payload aborts  *)
(* the scan: the scan changes no candidate entry and signals no process.   *)
(* A signal is only ever sent by a scan whose status query was parsed, so  *)
(* a server whose query fails on every scan has none of its processes      *)
(* reaped, however many scans run and however much time passes.            *)
(***************************************************************************)
Unparseable(payload) ==
    \/ payload.kind \in {"error", "other-object"}
    \/ payload.kind = "data-array" /\ payload.ids = {} /\ payload.length > 0
C23_FailedQueryNeverReaps ==
    [][/\ \A payload \in Payloads :
            Unparseable(payload) /\ FetchSettles(payload) =>
                /\ candidates' = candidates
                /\ signalled' = signalled
                /\ kills' = <<>>
                /\ scan' = NoScan
       /\ kills' # <<>> =>
            \/ scan.pc = "awaitExit"
            \/ \E payload \in Payloads :
                    ~Unparseable(payload) /\ FetchSettles(payload)
       /\ scan'.pc = "awaitExit" =>
            \/ scan.pc = "awaitExit"
            \/ \E payload \in Payloads :
                    ~Unparseable(payload) /\ FetchSettles(payload)]_rvars
C23_Witness ==
    /\ logged # <<>>
    /\ \E pid \in Pids :
          /\ processes[pid] = "mine"
          /\ MapHas(candidates, pid)
          /\ candidates[pid].count + 1 >= minZombieChecks
          /\ now - candidates[pid].firstDetectedAt >= gracePeriodMs


(***************************************************************************)
(* C24: in one-shot global mode (reapAll) an attach process is killed only *)
(* when the status query of its server gave a successfully parsed session  *)
(* set that does not contain the session id of the process; the processes  *)
(* of a server that is unreachable or answers with an ambiguous payload    *)
(* are not killed.                                                         *)
(***************************************************************************)
C24_KilledOnlyOnParsedSet ==
    [][\A payload \in Payloads :
            ReapAllStatusSettles(payload) =>
                \A pid \in forceKilled' \ forceKilled :
                    /\ ~Unparseable(payload)
                    /\ AttachProcess(pid).sessionId \notin payload.ids]_ovars


(***************************************************************************)
(* C25: reaping a process in continuous mode sends SIGTERM first, waits at *)
(* most EXIT_WAIT_MS for the process to exit, and sends SIGKILL only if    *)
(* the process is still alive after that wait, so SIGKILL never goes       *)
(* without a SIGTERM before it.  A process that the reaper has seen as     *)
(* zombie twice, the first time at least gracePeriodMs ago, and sees as    *)
(* zombie again in a parsed scan is reaped in that third scan              *)
(* (minZombieChecks <= 3): its SIGTERM is sent before the scan ends.       *)
(***************************************************************************)
Sent(signal, pid) ==
    \E i \in DOMAIN kills' : kills'[i] = [pid |-> pid, signal |-> signal]
\* The loop of a scan runs in this step over a parsed set of sessions.
LoopRuns(active) ==
    \/ /\ scan.pc = "awaitExit"
       /\ ExitSettles
       /\ active = scan.activeSessions
    \/ \E payload \in Payloads :
            /\ ~Unparseable(payload)
            /\ FetchSettles(payload)
            /\ active = payload.ids
InTodo(activation, pid) ==
    \E i \in DOMAIN activation.todo : activation.todo[i] = pid
ThirdSighting(pid, active) ==
    /\ InTodo(scan, pid)
    /\ AttachProcess(pid).sessionId \notin active
    /\ MapHas(candidates, pid)
    /\ candidates[pid].count >= 2
    /\ now - candidates[pid].firstDetectedAt >= gracePeriodMs
C25_TermWaitKill ==
    [][/\ \A pid \in Pids :
            /\ Sent("SIGTERM", pid) =>
                    /\ scan'.pc = "awaitExit"
                    /\ scan'.proc = pid
                    /\ scan'.waitDue = now + EXIT_WAIT_MS
            /\ Sent("SIGKILL", pid) =>
                    /\ scan.pc = "awaitExit"
                    /\ scan.proc = pid
                    /\ "SIGTERM" \in signalled[pid]
                    /\ processes[pid] # "gone"
                    /\ scan.waitDue <= now
            /\ scan'.pc = "awaitExit" => scan'.waitDue <= now + EXIT_WAIT_MS
       /\ minZombieChecks <= 3 =>
            \A pid \in Pids, active \in SUBSET Pids :
                LoopRuns(active) /\ ThirdSighting(pid, active) =>
                    \/ Sent("SIGTERM", pid)
                    \/ scan'.pc = "awaitExit" /\ InTodo(scan', pid)]_rvars
C25_Witness ==
    /\ scan.pc = "none"
    /\ \E pid \in Pids :
          /\ kills = <<[pid |-> pid, signal |-> "SIGKILL"]>>
          /\ signalled[pid] = {"SIGTERM", "SIGKILL"}
          /\ processes[pid] = "mine"
          /\ ~MapHas(candidates, pid)
    /\ \E pid \in Pids : signalled[pid] = {"SIGTERM"} /\ processes[pid] = "gone"


(***************************************************************************)
(* C26: with self-destruct enabled, when successive scans have found no    *)
(* process attached to this server for longer than selfDestructTimeoutMs,  *)
(* the scan that finds so ends the server process, also when there is no   *)
(* attach process on the machine at all; with self-destruct disabled the   *)
(* reaper never ends the process.                                          *)
(***************************************************************************)
ScanRuns ==
    /\ ~isScanning
    /\ ScanTimerFires \/ ReaperShutdown
C26_SelfDestructsWhenIdle ==
    /\ [][/\ autoSelfDestruct
          /\ ScanRuns
          /\ idleSince' # <<>>
          /\ now - idleSince'[1] > selfDestructTimeoutMs
          => reaperExited']_rvars
    /\ [](~autoSelfDestruct => ~reaperExited)


(***************************************************************************)
(* C27: in one-shot global mode reapServers kills the controller process   *)
(* that listens on a scanned port if and only if none of its status        *)
(* queries, three at most, gave a parseable session set, or the first      *)
(* parseable set is empty; a server that reports at least one active       *)
(* session is never killed.  A query is repeated only after an unparseable *)
(* answer, and only a process that looks like a controller is queried.     *)
(***************************************************************************)
Killed(port) == Len(serverSignals'[port]) > Len(serverSignals[port])
LastAttempt == oneShot.attempt + 1 = PROBE_ATTEMPTS
C27_ServerKilledIffInactive ==
    [][/\ \A payload \in Payloads :
            ProbeSettles(payload) =>
                /\ servers[oneShot.port] = "opencode"
                /\ oneShot.attempt < PROBE_ATTEMPTS
                /\ Killed(oneShot.port) <=>
                        \/ Unparseable(payload) /\ LastAttempt
                        \/ ~Unparseable(payload) /\ payload.ids = {}
                /\ oneShot'.pc = "awaitRetry" <=>
                        Unparseable(payload) /\ ~LastAttempt
                /\ Killed(oneShot.port) =>
                        serverSignals'[oneShot.port] = <<"SIGTERM">>
       /\ \A port \in Ports :
            Killed(port) =>
                /\ port = oneShot.port
                /\ \/ \E payload \in Payloads : ProbeSettles(payload)
                   \/ /\ ServerExitSettles(FALSE)
                      /\ serverSignals[port] = <<"SIGTERM">>
                      /\ serverSignals'[port] = <<"SIGTERM", "SIGKILL">>]_ovars
C27_Witness ==
    /\ oneShot.pc = "awaitExit"
    /\ oneShot.port = OPENCODE_PORT_START + 1
    /\ oneShot.attempt + 1 = PROBE_ATTEMPTS
    /\ serverSignals[oneShot.port] = <<"SIGTERM">>
    /\ servers[OPENCODE_PORT_START] = "opencode"
    /\ serverSignals[OPENCODE_PORT_START] = <<>>


(***************************************************************************)
(* C28: for agentCount >= 0 and maxPerColumn >= 1,                         *)
(* distributeAgentsRoundRobin uses ceil(agentCount / maxPerColumn) columns *)
(* (none for no agent) and puts agent i into column i mod numColumns, so   *)
(* the sizes of the columns add up to agentCount, differ by one at most    *)
(* and never exceed maxPerColumn; groupAgentsByColumn groups by the same   *)
(* assignment.                                                             *)
(***************************************************************************)
ColumnSize(columnAssignments, c) ==
    Cardinality({i \in DOMAIN columnAssignments : columnAssignments[i] = c})
RECURSIVE SumSizes(_, _)
SumSizes(columnAssignments, numColumns) ==
    IF numColumns = 0 THEN 0
    ELSE ColumnSize(columnAssignments, numColumns - 1)
            + SumSizes(columnAssignments, numColumns - 1)
C28_RoundRobinBalanced ==
    agentCount >= 0 /\ maxAgentsPerColumn >= 1 =>
        /\ distribution.ran =>
            /\ ~distribution.threw
            /\ LET numColumns == distribution.value.numColumns
                   columnAssignments == distribution.value.columnAssignments
                   columns == 0..(numColumns - 1)
               IN  /\ agentCount = 0 => numColumns = 0
                   /\ numColumns * maxAgentsPerColumn >= agentCount
                   /\ numColumns > 0 =>
                        (numColumns - 1) * maxAgentsPerColumn < agentCount
                   /\ Len(columnAssignments) = agentCount
                   /\ \A i \in 0..(agentCount - 1) :
                        columnAssignments[i + 1] = i % numColumns
                   /\ SumSizes(columnAssignments, numColumns) = agentCount
                   /\ \A c, d \in columns :
                        ColumnSize(columnAssignments, c)
                            - ColumnSize(columnAssignments, d) <= 1
                   /\ \A c \in columns :
                        ColumnSize(columnAssignments, c) <= maxAgentsPerColumn
        /\ grouped.ran =>
            /\ ~grouped.threw
            /\ \A c \in DOMAIN grouped.value :
                /\ Len(grouped.value[c]) <= maxAgentsPerColumn
                /\ \A k \in DOMAIN grouped.value[c] :
                        (grouped.value[c][k] - 1) % Len(grouped.value) = c - 1
                /\ \A d \in DOMAIN grouped.value :
                        Len(grouped.value[c]) - Len(grouped.value[d]) <= 1
C28_Witness ==
    /\ agentCount = 5
    /\ maxAgentsPerColumn = 3
    /\ distribution.ran
    /\ distribution.value =
            [numColumns |-> 2, columnAssignments |-> <<0, 1, 0, 1, 0>>]
    /\ grouped.ran
    /\ grouped.value = <<(<<1, 3, 5>>), (<<2, 4>>)>>

(***************************************************************************)
(* C29: computeColumnCount and distributeAgentsRoundRobin report an        *)
(* invalid input (throw) whenever maxPerColumn <= 0, whatever agentCount   *)
(* is, also when it is 0 or negative.                                      *)
(***************************************************************************)
C29_NonPositiveLimitIsInvalid ==
    distribution.ran /\ maxAgentsPerColumn <= 0 => distribution.threw

(***************************************************************************)
(* C30: the layout the manager renders (generateLayoutString) puts its k   *)
(* satellite panes into ceil(k / maxAgentsPerColumn) columns whose sizes   *)
(* differ by one at most, for every k >= 1 and maxAgentsPerColumn >= 1.    *)
(***************************************************************************)
C30_RenderedColumnsBalanced ==
    generated.ran /\ agentCount >= 1 /\ maxAgentsPerColumn >= 1 =>
        LET columns == generated.value
        IN  /\ Len(columns) * maxAgentsPerColumn >= agentCount
            /\ (Len(columns) - 1) * maxAgentsPerColumn < agentCount
            /\ \A c, d \in DOMAIN columns :
                    Len(columns[c]) - Len(columns[d]) <= 1

(***************************************************************************)
(* Claims about the layout string the manager applies.                     *)
(***************************************************************************)
\* String.prototype.indexOf from position i: the first position of the code.
RECURSIVE IndexOf(_, _, _)
IndexOf(text, code, i) ==
    IF i > Len(text) THEN 0
    ELSE IF text[i] = code THEN i
    ELSE IndexOf(text, code, i + 1)

\* The checksum a layout string carries: what precedes its first comma.
Prefix(text) == SubSeq(text, 1, IndexOf(text, 44, 1) - 1)

\* The body of a layout string: what follows its first comma.
Body(text) == SubSeq(text, IndexOf(text, 44, 1) + 1, Len(text))

\* C31: every layout string generateLayoutString renders is prefixed by the
\* checksum of its body, the 16-bit running checksum layoutChecksum
\* computes, written as exactly four lowercase hexadecimal digits.
C31_PrefixIsPaddedChecksum ==
    rendered.ran /\ rendered.text # <<>> =>
        Prefix(rendered.text) =
            padStart(toString16(layoutChecksum(Body(rendered.text))), 4)

\* The main pane's cell of a rendered layout with satellite panes: the first
\* child of the root.
MainCell == rendered.cells[1].children[1]

\* C32: in the layout the manager applies the main pane takes 60% of the
\* window width when the satellite panes fill one column, 45% when they fill
\* two and 30% when they fill three or more.
C32_MainShareFollowsColumns ==
    rendered.ran /\ rendered.cells # <<>> /\ Len(generated.value) >= 1 =>
        MainCell.sx =
            (windowWidth * mainPanePercentForColumns(Len(generated.value)))
                \div 100

\* A cell and the cells below it.
RECURSIVE CellsOf(_)
CellsOf(cell) ==
    {cell} \cup UNION {CellsOf(cell.children[i]) : i \in DOMAIN cell.children}

\* The size of a child along the axis its parent is split on: the width
\* below a left-right split, the height below a top-bottom split.
AlongSplit(parent, child) ==
    IF parent.type = "LEFTRIGHT" THEN child.sx ELSE child.sy

\* The sizes of the children of a cell from child i on, added up.
RECURSIVE ChildrenTotal(_, _)
ChildrenTotal(cell, i) ==
    IF i > Len(cell.children) THEN 0
    ELSE AlongSplit(cell, cell.children[i]) + ChildrenTotal(cell, i + 1)

\* C33: in every layout tree generateLayoutString renders, the children of
\* each split cell, with one separator unit between neighbours, exactly fill
\* the cell along the split axis, and the rows of a column differ in height
\* by at most one, the larger rows first.
C33_ChildrenAndSeparatorsFillParent ==
    rendered.ran /\ rendered.cells # <<>> =>
        \A cell \in CellsOf(rendered.cells[1]) :
            cell.children # <<>> =>
                /\ ChildrenTotal(cell, 1) + (Len(cell.children) - 1)
                       = AlongSplit(cell, cell)
                /\ cell.type = "TOPBOTTOM" =>
                       \A r, s \in DOMAIN cell.children :
                           r < s =>
                               /\ cell.children[r].sy >= cell.children[s].sy
                               /\ cell.children[r].sy - cell.children[s].sy <= 1

(***************************************************************************)
(* Claims about the scans of the zombie reaper.                            *)
(***************************************************************************)
\* C34: scans never overlap.  A scanOnce call made while a scan is under
\* way, by the timer or by shutdown(), leaves the candidates, the pending
\* scan and the activity record alone and sends no signal; and the
\* in-progress flag is set exactly while a scan is suspended at one of its
\* awaits, so every way out of a scan has cleared it.
C34_ScansNeverOverlap ==
    /\ [][(ScanTimerFires \/ ReaperShutdown) /\ isScanning =>
            /\ UNCHANGED <<candidates, scan, isScanning, signalled,
                           lastActivityTime, idleSince, reaperExited>>
            /\ kills' = <<>>]_rvars
    /\ [](~reaperExited => (isScanning <=> scan.pc # "none"))

\* A scan has been waiting for a reaped process for one interval, and the
\* timer has just fired into it.
C34_Witness ==
    /\ isScanning
    /\ scan.pc = "awaitExit"
    /\ scan.waitDue = now + (EXIT_WAIT_MS - reaperIntervalMs)
    /\ reaperPollInterval
    /\ scanDue = now + reaperIntervalMs

\* The processes of a list.
Members(list) == {list[i] : i \in DOMAIN list}

\* What the candidate map must be when a scan over the processes `all` of
\* this server, with the parsed session set `active`, has completed: an
\* entry for exactly the zombies it did not reap, each count one above the
\* count the process had when the scan began.
CandidatesAfterScan(c, all, active, reaped, startCount) ==
    LET zombies == {pid \in all : AttachProcess(pid).sessionId \notin active}
    IN  /\ DOMAIN c = zombies \ reaped
        /\ \A pid \in DOMAIN c : c[pid].count = startCount[pid] + 1

\* C35: a candidate entry exists only while its process is suspected.  When
\* a scan that obtained a parsed session set completes, either as the
\* status query settles or as the wait for the last reaped process ends,
\* the candidate map holds exactly the processes of this server the scan
\* classified as zombies and did not reap, each count grown by one.
C35_CandidatesAreTheSuspects ==
    /\ [][\A payload \in Payloads :
            /\ FetchSettles(payload)
            /\ fetchActiveSessions(payload).isSet
            /\ scan'.pc = "none"
            => CandidatesAfterScan(candidates', Members(scan.todo),
                                   fetchActiveSessions(payload).ids, {},
                                   scan.startCount)]_rvars
    /\ [][ExitSettles /\ scan'.pc = "none" =>
            CandidatesAfterScan(candidates',
                                Members(scan.todo) \cup scan.currentPids,
                                scan.activeSessions, scan.reaped,
                                scan.startCount)]_rvars

\* A completed scan has left a suspect it has now seen twice: the process is
\* still attached, nothing has been sent to it, no scan is under way.
C35_Witness ==
    /\ ~isScanning
    /\ scan.pc = "none"
    /\ \E pid \in Pids :
           /\ processes[pid] = "mine"
           /\ MapHas(candidates, pid)
           /\ candidates[pid].count = 2
           /\ signalled[pid] = {}

\* Two urls name one endpoint: the same scheme, where a url without a
\* scheme is an http url, the same host, where localhost is 127.0.0.1, and
\* the same port.
SameEndpoint(url, endpoint) ==
    LET SchemeOf(u) == IF u.scheme = "" THEN "http" ELSE u.scheme
        HostOf(u) == IF u.hostname = "localhost" THEN "127.0.0.1" ELSE u.hostname
    IN  /\ url # NoUrl
        /\ SchemeOf(url) = SchemeOf(endpoint)
        /\ HostOf(url) = HostOf(endpoint)
        /\ url.port = endpoint.port

\* C36: continuous-mode scanning marks and signals only processes whose
\* target url names this instance's own endpoint; a process attached to
\* another server is never a candidate and is never sent a signal.
C36_OnlyOwnProcessesAreTouched ==
    \A pid \in Pids :
        MapHas(candidates, pid) \/ signalled[pid] # {} =>
            SameEndpoint(targetUrl[pid], serverUrl)

\* A process that names this server as localhost:4096 has been reaped while
\* a process attached to the server on the next port is left alone.
C36_Witness ==
    \E pid, other \in Pids :
        /\ targetUrl[pid] = Url("", "localhost", OPENCODE_PORT_START)
        /\ "SIGTERM" \in signalled[pid]
        /\ targetUrl[other] = Url("http", "127.0.0.1", OPENCODE_PORT_START + 1)
        /\ processes[other] = "other"
        /\ signalled[other] = {}
        /\ ~MapHas(candidates, other)


(***************************************************************************)
(* The queue under the scheduling of the event loop: a work function that  *)
(* was called settles, a timer that is due fires, a continuation that is   *)
(* ready runs, and time passes while something waits for it.  Calls of     *)
(* enqueue and shutdown are the caller's and are not forced.               *)
(***************************************************************************)
QueueFairness ==
    /\ WF_vars(\E i \in DOMAIN loops, outcome \in SpawnOutcomes :
                    SpawnSettles(i, outcome))
    /\ WF_vars(\E i \in DOMAIN loops : BackoffFires(i))
    /\ WF_vars(\E i \in DOMAIN loops, cb \in Callbacks : ItemReturns(i, cb))
    /\ WF_vars(\E i \in DOMAIN loops, cb \in Callbacks : DelayFires(i, cb))
    /\ WF_vars(Tick)

FairSpec == Spec /\ QueueFairness

\* C37: every promise returned by enqueue eventually resolves, provided
\* every work-function invocation settles and timers fire: no accepted item
\* stays queued forever with no processing loop running, items enqueued from
\* inside the notifications or while the loop is finishing included.
C37_EveryPromiseResolves ==
    \A p \in PromiseIds :
        (promises[p].state = "pending") ~> (promises[p].state # "pending")


(***************************************************************************)
(* The manager when an event is delivered again while the pane of its      *)
(* session is being spawned: a second activation of onSessionCreated runs  *)
(* beside the first (lines 91-118; readyPromise has settled, since the     *)
(* first is past it).                                                      *)
(***************************************************************************)
OnSessionCreatedAgain(event) ==
    /\ ~exited
    /\ Len(creates) < MaxCreates + MaxRepeats
    /\ \E i \in DOMAIN creates :
            creates[i].pc = "awaitSpawn" /\ creates[i].event = event
    /\ creates' = HandleEvent(creates, sessions, event)
    /\ UNCHANGED <<sessions, pollInterval, pollDue, enabled, shuttingDown,
                   mainPaneId, readyPromise, polls, layouts, cleanups, exited,
                   tmuxSessionKilled, timers>>
    /\ UNCHANGED <<vars, rvars, ovars, lvars>>

RepeatNext ==
    \/ ManagerNext
    \/ \E event \in Events : OnSessionCreatedAgain(event)

RepeatSpec == ManagerInit /\ [][RepeatNext]_mvars

\* The creations of a pane for session s under way, and its tracked pane.
Spawning(s) ==
    {i \in DOMAIN creates : creates[i].pc = "awaitSpawn" /\ creates[i].event.id = s}
Surfaces(s) ==
    Cardinality(Spawning(s)) + (IF SessionsHas(sessions, s) THEN 1 ELSE 0)

\* C38: for each session id at most one pane is being spawned or tracked at
\* a time, a second session.created event for the id that arrives while the
\* first creation is awaiting included; no pane is spawned for a session
\* already tracked, so none is left untracked.
C38_OneSurfacePerSession ==
    /\ [](\A s \in SessionIds : Surfaces(s) <= 1)
    /\ [][\A i \in DOMAIN creates :
            \A outcome \in SpawnPaneOutcomes(creates[i].event.id) :
                /\ SpawnPaneSettles(i, outcome)
                /\ PaneSpawned(SpawnPaneResult(outcome))
                => ~SessionsHas(sessions, creates[i].event.id)]_mvars


\* The panes a close has been asked for by cleanup k or by a poll under way.
ClosesAsked(k) ==
    cleanups[k].closePromises
        \cup {polls[j].closing : j \in {j \in DOMAIN polls : polls[j].pc = "awaitClose"}}

\* C39: when cleanup completes, a close has been asked for every pane the
\* manager tracks, no session is tracked any more and no poll timer runs,
\* whatever creations and polls were in flight when it started; a creation
\* that finishes once a shutdown is under way tracks nothing and starts no
\* timer.
C39_CleanupClosesEverything ==
    [][/\ \A k \in DOMAIN cleanups :
            CleanupSettles(k) =>
                /\ TrackedPanes \subseteq ClosesAsked(k)
                /\ sessions' = <<>>
                /\ ~pollInterval'
       /\ \A i \in DOMAIN creates :
            \A outcome \in SpawnPaneOutcomes(creates[i].event.id) :
                SpawnPaneSettles(i, outcome) /\ shuttingDown =>
                    UNCHANGED <<sessions, pollInterval>>]_mvars


\* C40: outside a shutdown, whenever a session is tracked the poll timer is
\* set and due at some time to come, so every tracked session has a poll
\* ahead of it.
C40_TrackedIsPolled ==
    ~shuttingDown /\ ~exited /\ sessions # <<>> =>
        pollInterval /\ pollDue >= now

\* One of two overlapping polls has closed a session and left the other
\* session tracked: the timer runs on while the second poll still awaits
\* its own close of the session that is gone.
C40_Witness ==
    /\ ~shuttingDown /\ ~exited
    /\ Len(sessions) = 1
    /\ pollInterval
    /\ \E j \in DOMAIN polls :
            /\ polls[j].pc = "awaitClose"
            /\ ~SessionsHas(sessions, Head(polls[j].sessionsToClose))

=============================================================================
